---- MODULE Spec2Model ----
(***************************************************************************)
(* Circular-motion simulation (src/src/pages/SimulationPage.tsx).          *)
(*                                                                         *)
(* The program computes with IEEE doubles; the model computes with         *)
(* integers in fixed point.  Units of the integer quantities:              *)
(*   angle            1e-5 rad      (2*pi = 628320)                        *)
(*   mass             1e-2 kg                                              *)
(*   angularVelocity  1e-2 rad/s                                           *)
(*   maxTension       1e-7 N        (5 N = 50000000)                       *)
(*   radius           1e-1 m                                               *)
(*   timeScale        1e-3          (0.016 = 16)                           *)
(*   centripetalForce 1e-7 N        (= mass * w * w * radius, exact)       *)
(*   linearVelocity   1e-3 m/s      (= w * radius, exact)                  *)
(*   sin, cos         1e-3                                                 *)
(*   velocity vectors 1e-6 m/s                                             *)
(*   positions        1e-4 pixel                                           *)
(*   acceleration     1e-5 m/s^2    (= centripetalForce / mass)            *)
(*   arrow lengths    1e-5 pixel (acceleration arrow), 1e-3 pixel          *)
(*                    (linear-velocity arrow)                              *)
(* Products and comparisons are exact in these units; Math.sin/Math.cos    *)
(* are a 7th-order Taylor polynomial with quadrant reduction, and the      *)
(* multiplications by 0.3 and by timeScale round toward minus infinity.    *)
(***************************************************************************)
EXTENDS Integers, Sequences, FiniteSets, TLC

VARIABLES model, isPaused, view, pending, frame, fresh, op, pre, nSteps, nEdits,
          movingSteps, snapshot, sampled,
          home, phet, quiz

vars == <<model, isPaused, view, pending, frame, fresh, op, pre, nSteps, nEdits,
          movingSteps, snapshot, sampled, home, phet, quiz>>

\* the simulation page and its history
simulation == <<model, isPaused, view, pending, frame, fresh, op, pre, nSteps,
                nEdits, movingSteps, snapshot, sampled>>

(***************************************************************************)
(* Bounds of the exploration.                                              *)
(***************************************************************************)
MaxSteps == 6
MaxEdits == 2

(***************************************************************************)
(* enum SimulationState, enum RotationDirection                            *)
(***************************************************************************)
NORMAL_CIRCULAR_MOTION == "normal"
ROPE_BROKEN == "broken"
CLOCKWISE == "clockwise"
COUNTERCLOCKWISE == "counterclockwise"

Vector2(px, py) == [x |-> px, y |-> py]

(***************************************************************************)
(* Math.PI and the trigonometric functions.                                *)
(***************************************************************************)
HalfPi == 157080
Pi == 2 * HalfPi
TwoPi == 4 * HalfPi

\* sine of t, t in 1e-3 rad within [0, pi/2]; result in 1e-3
SinQuadrant(t) ==
    LET t2 == (t * t) \div 1000
        t3 == (t2 * t) \div 1000
        t5 == (t3 * t2) \div 1000
        t7 == (t5 * t2) \div 1000
        s  == t - (t3 \div 6) + (t5 \div 120) - (t7 \div 5040)
    IN  IF s > 1000 THEN 1000 ELSE s

\* Math.sin(a), a in 1e-5 rad, any integer
sin(a) ==
    LET r == a % TwoPi
    IN  IF r <= HalfPi THEN SinQuadrant(r \div 100)
        ELSE IF r <= Pi THEN SinQuadrant((Pi - r) \div 100)
        ELSE IF r <= Pi + HalfPi THEN 0 - SinQuadrant((r - Pi) \div 100)
        ELSE 0 - SinQuadrant((TwoPi - r) \div 100)

\* Math.cos(a)
cos(a) == sin(a + HalfPi)

(***************************************************************************)
(* class CircularMotionSimulationModel                                     *)
(***************************************************************************)
trajectoryInterval == 3
timeScale == 16
pixelsPerMeter == 100
maxTrajectoryPoints == 200

\* the object after construction (field initialisers)
NewModel ==
    [ angle             |-> 0,
      mass              |-> 100,
      angularVelocity   |-> 50,
      maxTension        |-> 50000000,
      radius            |-> 10,
      centerPosition    |-> Vector2(3000000, 2200000),
      rotationDirection |-> CLOCKWISE,
      state             |-> NORMAL_CIRCULAR_MOTION,
      brokenPosition    |-> Vector2(0, 0),
      brokenVelocity    |-> Vector2(0, 0),
      trajectoryPoints  |-> << >>,
      maxTrajectoryPoints |-> maxTrajectoryPoints,
      trajectoryCounter |-> 0 ]

\* variant: the angular velocity enters the force once instead of squared
centripetalForce_notSquared(m) == m.mass * m.angularVelocity * m.radius

centripetalForce(m) == m.mass * m.angularVelocity * m.angularVelocity * m.radius

\* variant: the angular velocity enters the speed squared
linearVelocity_angularSquared(m) == m.angularVelocity * m.angularVelocity * m.radius

linearVelocity(m) == m.angularVelocity * m.radius

getBlockPosition(m) ==
    IF m.state = NORMAL_CIRCULAR_MOTION
    THEN LET radiusPixels == m.radius * pixelsPerMeter
         IN  Vector2(m.centerPosition.x + radiusPixels * cos(m.angle),
                     m.centerPosition.y + ((radiusPixels * sin(m.angle) * 3) \div 10))
    ELSE m.brokenPosition

getCurrentVelocity(m) ==
    LET tangentAngle == m.angle + HalfPi
        velocity == linearVelocity(m)
    IN  Vector2(velocity * cos(tangentAngle), velocity * sin(tangentAngle))

\* variant: the state is switched before the position is read, so the
\* position query already answers with the old brokenPosition
breakRope_stateFirst(m) ==
    LET switched == [m EXCEPT !.state = ROPE_BROKEN]
    IN  [switched EXCEPT !.brokenPosition = getBlockPosition(switched),
                         !.brokenVelocity = getCurrentVelocity(m)]

breakRope(m) ==
    LET currentPosition == getBlockPosition(m)
        currentVelocity == getCurrentVelocity(m)
    IN  [m EXCEPT !.state = ROPE_BROKEN,
                  !.brokenPosition = currentPosition,
                  !.brokenVelocity = currentVelocity]

\* variant: the oldest point is never removed
collectTrajectoryPoint_noShift(m) ==
    LET counter == m.trajectoryCounter + 1
    IN  IF counter >= trajectoryInterval
        THEN [m EXCEPT !.trajectoryPoints = Append(@, getBlockPosition(m)),
                       !.trajectoryCounter = 0]
        ELSE [m EXCEPT !.trajectoryCounter = counter]

\* variant: a full trail drops the newest point instead of the oldest
collectTrajectoryPoint_popNewest(m) ==
    LET counter == m.trajectoryCounter + 1
    IN  IF counter >= trajectoryInterval
        THEN LET pushed == Append(m.trajectoryPoints, getBlockPosition(m))
             IN  [m EXCEPT !.trajectoryPoints =
                               IF Len(pushed) > m.maxTrajectoryPoints
                               THEN SubSeq(pushed, 1, Len(pushed) - 1)
                               ELSE pushed,
                           !.trajectoryCounter = 0]
        ELSE [m EXCEPT !.trajectoryCounter = counter]

\* variant: the object getBlockPosition returns is pushed itself; in
\* ROPE_BROKEN state that object is the model's brokenPosition
collectTrajectoryPoint_pushesReference(m) ==
    LET counter == m.trajectoryCounter + 1
        currentPos == IF m.state = NORMAL_CIRCULAR_MOTION
                      THEN getBlockPosition(m)
                      ELSE [ref |-> "brokenPosition"]
    IN  IF counter >= trajectoryInterval
        THEN LET pushed == Append(m.trajectoryPoints, currentPos)
             IN  [m EXCEPT !.trajectoryPoints =
                               IF Len(pushed) > m.maxTrajectoryPoints
                               THEN Tail(pushed) ELSE pushed,
                           !.trajectoryCounter = 0]
        ELSE [m EXCEPT !.trajectoryCounter = counter]

collectTrajectoryPoint(m) ==
    LET counter == m.trajectoryCounter + 1
    IN  IF counter >= trajectoryInterval
        THEN LET pushed == Append(m.trajectoryPoints, getBlockPosition(m))
             IN  [m EXCEPT !.trajectoryPoints =
                               IF Len(pushed) > m.maxTrajectoryPoints
                               THEN Tail(pushed) ELSE pushed,
                           !.trajectoryCounter = 0]
        ELSE [m EXCEPT !.trajectoryCounter = counter]

\* the coordinates read through trajectoryPoints[i]: an entry is an object
\* of its own, or the object another field of the model refers to
pointAt(m, i) ==
    LET point == m.trajectoryPoints[i]
    IN  IF "ref" \in DOMAIN point THEN m.brokenPosition ELSE point

\* variant: the rotation direction is not consulted
advanceAngle_ignoresDirection(m) ==
    LET a == m.angle + m.angularVelocity * timeScale
    IN  [m EXCEPT !.angle = IF a >= TwoPi THEN a - TwoPi
                            ELSE IF a < 0 THEN a + TwoPi
                            ELSE a]

\* the angle update of the else-branch of step, lines 73-79
advanceAngle(m) ==
    LET directionMultiplier == IF m.rotationDirection = CLOCKWISE THEN 1 ELSE -1
        a == m.angle + m.angularVelocity * timeScale * directionMultiplier
    IN  [m EXCEPT !.angle = IF a >= TwoPi THEN a - TwoPi
                            ELSE IF a < 0 THEN a + TwoPi
                            ELSE a]

\* pixels per frame of a velocity component (1e-6 m/s -> 1e-4 pixel):
\* v * pixelsPerMeter * timeScale, where pixelsPerMeter = 100 is the ratio
\* of the two units and timeScale is in 1e-3
pixelsPerFrame(v) == (v * timeScale) \div 1000

\* variant: the broken body moves with the velocity the current parameters
\* give instead of the captured one
advanceBroken_liveVelocity(m) ==
    LET live == getCurrentVelocity(m)
        velocityPixelsPerFrame ==
            Vector2(pixelsPerFrame(live.x), (pixelsPerFrame(live.y) * 3) \div 10)
    IN  [m EXCEPT !.brokenPosition =
                      Vector2(m.brokenPosition.x + velocityPixelsPerFrame.x,
                              m.brokenPosition.y + velocityPixelsPerFrame.y)]

\* variant: the 0.3 compression is applied to both components
advanceBroken_squashBoth(m) ==
    LET velocityPixelsPerFrame ==
            Vector2((pixelsPerFrame(m.brokenVelocity.x) * 3) \div 10,
                    (pixelsPerFrame(m.brokenVelocity.y) * 3) \div 10)
    IN  [m EXCEPT !.brokenPosition =
                      Vector2(m.brokenPosition.x + velocityPixelsPerFrame.x,
                              m.brokenPosition.y + velocityPixelsPerFrame.y)]

\* the else-branch of step, lines 82-90
advanceBroken(m) ==
    LET velocityPixelsPerFrame ==
            Vector2(pixelsPerFrame(m.brokenVelocity.x),
                    (pixelsPerFrame(m.brokenVelocity.y) * 3) \div 10)
    IN  [m EXCEPT !.brokenPosition =
                      Vector2(m.brokenPosition.x + velocityPixelsPerFrame.x,
                              m.brokenPosition.y + velocityPixelsPerFrame.y)]

\* variant: the break condition is re-evaluated on every step, so a rope
\* whose force is back under the limit is whole again
step_recheck(m) ==
    IF m.angularVelocity = 0 /\ m.state = NORMAL_CIRCULAR_MOTION
    THEN m
    ELSE IF centripetalForce(m) > m.maxTension
         THEN IF m.state = NORMAL_CIRCULAR_MOTION
              THEN collectTrajectoryPoint(breakRope(m))
              ELSE collectTrajectoryPoint(advanceBroken(m))
         ELSE collectTrajectoryPoint(
                  advanceAngle([m EXCEPT !.state = NORMAL_CIRCULAR_MOTION]))

\* variant: the rope breaks at the limit already (>= for >)
step_atOrAbove(m) ==
    IF m.state = NORMAL_CIRCULAR_MOTION
    THEN IF m.angularVelocity = 0
         THEN m
         ELSE IF centripetalForce(m) >= m.maxTension
              THEN collectTrajectoryPoint(breakRope(m))
              ELSE collectTrajectoryPoint(advanceAngle(m))
    ELSE collectTrajectoryPoint(advanceBroken(m))

\* variant: the step that breaks the rope returns without sampling
step_breakSkipsSample(m) ==
    IF m.state = NORMAL_CIRCULAR_MOTION
    THEN IF m.angularVelocity = 0
         THEN m
         ELSE IF centripetalForce(m) > m.maxTension
              THEN breakRope(m)
              ELSE collectTrajectoryPoint(advanceAngle(m))
    ELSE collectTrajectoryPoint(advanceBroken(m))

\* variant: a body at rest is sampled like a moving one (no early return)
step_restSamples(m) ==
    IF m.state = NORMAL_CIRCULAR_MOTION
    THEN IF m.angularVelocity = 0
         THEN collectTrajectoryPoint(m)
         ELSE IF centripetalForce(m) > m.maxTension
              THEN collectTrajectoryPoint(breakRope(m))
              ELSE collectTrajectoryPoint(advanceAngle(m))
    ELSE collectTrajectoryPoint(advanceBroken(m))

\* variant: the angle keeps turning after the break
step_keepsTurning(m) ==
    IF m.state = NORMAL_CIRCULAR_MOTION
    THEN IF m.angularVelocity = 0
         THEN m
         ELSE IF centripetalForce(m) > m.maxTension
              THEN collectTrajectoryPoint(breakRope(m))
              ELSE collectTrajectoryPoint(advanceAngle(m))
    ELSE collectTrajectoryPoint(advanceBroken(advanceAngle(m)))

step(m) ==
    IF m.state = NORMAL_CIRCULAR_MOTION
    THEN IF m.angularVelocity = 0
         THEN m
         ELSE IF centripetalForce(m) > m.maxTension
              THEN collectTrajectoryPoint(breakRope(m))
              ELSE collectTrajectoryPoint(advanceAngle(m))
    ELSE collectTrajectoryPoint(advanceBroken(m))

\* variant: the sampling counter survives the reset
reset_keepsCounter(m) ==
    [m EXCEPT !.state = NORMAL_CIRCULAR_MOTION,
              !.angle = 0,
              !.brokenPosition = Vector2(0, 0),
              !.brokenVelocity = Vector2(0, 0),
              !.trajectoryPoints = << >>]

\* variant: the reset also restores the parameters' initial values
reset_restoresDefaults(m) ==
    [m EXCEPT !.state = NORMAL_CIRCULAR_MOTION,
              !.angle = 0,
              !.mass = 100,
              !.angularVelocity = 50,
              !.maxTension = 50000000,
              !.radius = 10,
              !.rotationDirection = CLOCKWISE,
              !.brokenPosition = Vector2(0, 0),
              !.brokenVelocity = Vector2(0, 0),
              !.trajectoryPoints = << >>,
              !.trajectoryCounter = 0]

reset(m) ==
    [m EXCEPT !.state = NORMAL_CIRCULAR_MOTION,
              !.angle = 0,
              !.brokenPosition = Vector2(0, 0),
              !.brokenVelocity = Vector2(0, 0),
              !.trajectoryPoints = << >>,
              !.trajectoryCounter = 0]

\* variant: the sampling counter survives the clear
clearTrajectory_keepsCounter(m) ==
    [m EXCEPT !.trajectoryPoints = << >>]

clearTrajectory(m) ==
    [m EXCEPT !.trajectoryPoints = << >>,
              !.trajectoryCounter = 0]

(***************************************************************************)
(* The scene: the render layers and one render pass.  A layer's render     *)
(* gets the model object and its own visible flag and answers with the     *)
(* model object as it leaves it and whether it drew.                       *)
(***************************************************************************)
PlaneNodeRender(m, visible) ==
    [model |-> m, drew |-> visible]

\* the orbit guide
TrajectoryNodeRender(m, visible) ==
    [model |-> m, drew |-> visible /\ m.state = NORMAL_CIRCULAR_MOTION]

\* the arguments of context.ellipse in the orbit guide, in 1e-4 pixel: the
\* radius field is passed as it is, a length in metres read as pixels
TrajectoryNodeEllipse(m) ==
    [ x       |-> m.centerPosition.x,
      y       |-> m.centerPosition.y,
      radiusX |-> m.radius * 1000,
      radiusY |-> (m.radius * 1000 * 3) \div 10 ]

CenterNodeRender(m, visible) ==
    [model |-> m, drew |-> visible]

\* variant: the rope is drawn whatever the state
RopeNodeRender_ignoresState(m, visible) ==
    [model |-> m, drew |-> visible]

RopeNodeRender(m, visible) ==
    [model |-> m, drew |-> ~(~visible \/ m.state = ROPE_BROKEN)]

TrajectoryPathNodeRender(m, visible) ==
    [model |-> m, drew |-> ~(~visible \/ Len(m.trajectoryPoints) < 2)]

\* variant: the block is centred by shifting the position object the model
\* handed out, which in ROPE_BROKEN state is the model's own brokenPosition
BlockNodeRender_shiftsPosition(m, visible) ==
    [model |-> IF visible /\ m.state = ROPE_BROKEN
               THEN [m EXCEPT !.brokenPosition =
                         Vector2(@.x - 80000, @.y - 80000)]
               ELSE m,
     drew |-> visible]

BlockNodeRender(m, visible) ==
    [model |-> m, drew |-> visible]

CentripetalAccelerationArrowNodeRender(m, visible) ==
    [model |-> m,
     drew |-> /\ ~(~visible \/ m.state # NORMAL_CIRCULAR_MOTION)
              /\ ~(m.angularVelocity = 0)]

LinearVelocityArrowNodeRender(m, visible) ==
    [model |-> m,
     drew |-> /\ visible
              /\ ~(m.angularVelocity = 0 /\ m.state = NORMAL_CIRCULAR_MOTION)]

AngularVelocityArrowNodeRender(m, visible) ==
    [model |-> m,
     drew |-> /\ ~(~visible \/ m.state # NORMAL_CIRCULAR_MOTION)
              /\ ~(m.angularVelocity = 0)]

StatusTextNodeRender(m, visible) ==
    [model |-> m, drew |-> visible]

\* the value of 0/0; Math.min and Math.max return it when given it
NaN == -1

MathMin(a, b) == IF a = NaN \/ b = NaN THEN NaN ELSE IF a < b THEN a ELSE b

MathMax(a, b) == IF a = NaN \/ b = NaN THEN NaN ELSE IF a > b THEN a ELSE b

\* centripetalForce / mass of CentripetalAccelerationArrowNode.render; the
\* force is 0 whenever the mass is, so a zero mass gives 0/0
centripetalAcceleration(m) ==
    IF m.mass = 0 THEN NaN ELSE centripetalForce(m) \div m.mass

\* variant: the lower clamp is missing
accelerationMagnitude_noFloor(m) ==
    LET a == centripetalAcceleration(m)
    IN  MathMin(IF a = NaN THEN NaN ELSE a * 20, 7000000)

\* accelerationMagnitude of CentripetalAccelerationArrowNode.render
accelerationMagnitude(m) ==
    LET a == centripetalAcceleration(m)
    IN  MathMax(3000000, MathMin(IF a = NaN THEN NaN ELSE a * 20, 7000000))

\* velocityMagnitude of LinearVelocityArrowNode.render, the same expression
\* in both states
velocityMagnitude(m) ==
    MathMax(30000, MathMin(linearVelocity(m) * 50, 80000))

\* variant: the body marker is created after the arrows
nodes_blockLast ==
    << "PlaneNode", "TrajectoryNode", "CenterNode", "RopeNode",
       "TrajectoryPathNode", "CentripetalAccelerationArrowNode",
       "LinearVelocityArrowNode", "AngularVelocityArrowNode", "BlockNode",
       "StatusTextNode" >>

\* SimulationScene.nodes as createNodes fills it
nodes ==
    << "PlaneNode", "TrajectoryNode", "CenterNode", "RopeNode",
       "TrajectoryPathNode", "BlockNode", "CentripetalAccelerationArrowNode",
       "LinearVelocityArrowNode", "AngularVelocityArrowNode",
       "StatusTextNode" >>

NodeNames == { nodes[i] : i \in 1..Len(nodes) }

\* the visible fields as initialised; no code assigns them
NodeVisible == [n \in NodeNames |-> TRUE]

nodeRender(n, m, visible) ==
    CASE n = "PlaneNode" -> PlaneNodeRender(m, visible)
      [] n = "TrajectoryNode" -> TrajectoryNodeRender(m, visible)
      [] n = "CenterNode" -> CenterNodeRender(m, visible)
      [] n = "RopeNode" -> RopeNodeRender(m, visible)
      [] n = "TrajectoryPathNode" -> TrajectoryPathNodeRender(m, visible)
      [] n = "BlockNode" -> BlockNodeRender(m, visible)
      [] n = "CentripetalAccelerationArrowNode" ->
             CentripetalAccelerationArrowNodeRender(m, visible)
      [] n = "LinearVelocityArrowNode" -> LinearVelocityArrowNodeRender(m, visible)
      [] n = "AngularVelocityArrowNode" -> AngularVelocityArrowNodeRender(m, visible)
      [] n = "StatusTextNode" -> StatusTextNodeRender(m, visible)

\* this.nodes.forEach(node => node.render(context)), from the i-th node on
RECURSIVE renderFrom(_, _, _)
renderFrom(i, m, vis) ==
    IF i > Len(nodes)
    THEN [model |-> m, invoked |-> << >>, drawn |-> << >>]
    ELSE LET r == nodeRender(nodes[i], m, vis[nodes[i]])
             rest == renderFrom(i + 1, r.model, vis)
         IN  [model |-> rest.model,
              invoked |-> << nodes[i] >> \o rest.invoked,
              drawn |-> (IF r.drew THEN << nodes[i] >> ELSE << >>) \o rest.drawn]

\* SimulationScene.render: the model as the pass leaves it, the layers
\* whose render ran and the layers that drew, both in order
render(m, vis) == renderFrom(1, m, vis)

\* the canvas before the first frame
NoFrame == [stepped |-> FALSE, invoked |-> << >>, drawn |-> << >>]

FrameOf(stepped, r) ==
    [stepped |-> stepped, invoked |-> r.invoked, drawn |-> r.drawn]

(***************************************************************************)
(* Values the parameter controls assign to the model.                      *)
(***************************************************************************)
Parameters(ms, w, t, r, d) ==
    [mass |-> ms, angularVelocity |-> w, maxTension |-> t, radius |-> r,
     rotationDirection |-> d]

ParameterSettings ==
    { Parameters(100, 50, 50000000, 10, CLOCKWISE),
      Parameters(100, 50, 50000000, 10, COUNTERCLOCKWISE),
      Parameters(100, 0, 50000000, 10, CLOCKWISE),
      Parameters(100, 200, 200000000, 30, CLOCKWISE),
      Parameters(200, 499, 500000000, 10, CLOCKWISE),
      Parameters(200, 500, 500000000, 10, CLOCKWISE),
      Parameters(200, 501, 500000000, 10, CLOCKWISE),
      Parameters(50, 707, 200000000, 8, CLOCKWISE),
      Parameters(50, 708, 200000000, 8, CLOCKWISE),
      Parameters(100, 50, 0, 10, CLOCKWISE),
      Parameters(100, 50, 0, 10, COUNTERCLOCKWISE),
      Parameters(1, 40000, 50000000, 0, COUNTERCLOCKWISE) }

\* INITIAL_VALUES of the page
INITIAL_VALUES == Parameters(100, 50, 50000000, 10, CLOCKWISE)

\* settings within the ranges of the page's sliders and direction buttons
ControlSettings ==
    { INITIAL_VALUES,
      Parameters(100, 50, 50000000, 10, COUNTERCLOCKWISE),
      Parameters(100, 0, 50000000, 10, CLOCKWISE),
      Parameters(100, 50, 0, 10, CLOCKWISE),
      Parameters(100, 200, 50000000, 30, COUNTERCLOCKWISE) }

\* the parameter sync effect: five direct assignments
syncParameters(m, p) ==
    [m EXCEPT !.mass = p.mass,
              !.angularVelocity = p.angularVelocity,
              !.maxTension = p.maxTension,
              !.radius = p.radius,
              !.rotationDirection = p.rotationDirection]

(***************************************************************************)
(* HomePage (src/src/pages/HomePage.tsx): a canvas animation of the body   *)
(* on its orbit and a checkbox for the centripetal-force arrow.            *)
(*   view               created or mounted                                 *)
(*   showForceAnalysis  the React state the checkbox is bound to           *)
(*   showForceRef       showForceRef.current, which animate reads          *)
(*   pending            one entry per registered frame callback: the angle *)
(*                      variable of the effect run whose animate it is     *)
(*   frame              what the last call of animate drew: the angle of   *)
(*                      the body and whether the arrow was drawn           *)
(* Angles are in 1e-5 rad, lengths in 1e-3 pixel.                          *)
(***************************************************************************)
NewHomePage ==
    [ view              |-> "created",
      showForceAnalysis |-> FALSE,
      showForceRef      |-> FALSE,
      pending           |-> << >>,
      frame             |-> [angle |-> 0, arrow |-> FALSE] ]

HomeAngularSpeed == 2000
HomeRadius == 70

\* forceDirX, forceDirY of animate: from the body to the centre
HomeForceDirection(angle) ==
    Vector2(0 - HomeRadius * cos(angle),
            0 - ((HomeRadius * sin(angle) * 3) \div 10))

\* distance > 0
HomeDistancePositive(angle) ==
    LET d == HomeForceDirection(angle)
    IN  d.x # 0 \/ d.y # 0

\* what one call of animate draws at the given angle
HomeDraw(h, angle) ==
    [angle |-> angle,
     arrow |-> h.showForceRef /\ HomeDistancePositive(angle)]

\* the angle variable after one call of animate
HomeAdvance(angle) ==
    IF angle + HomeAngularSpeed >= TwoPi THEN 0 ELSE angle + HomeAngularSpeed

\* the effect that copies the state into the ref; its dependency list is
\* empty, so it runs after the first render only
HomeSyncEffect(h) == [h EXCEPT !.showForceRef = h.showForceAnalysis]

\* the animation effect: angle starts at 0 and animate is called once
HomeAnimationEffect(h) ==
    [h EXCEPT !.frame = HomeDraw(h, 0),
              !.pending = Append(@, HomeAdvance(0))]

\* the cleanup of the animation effect cancels the latest registration
HomeCleanup(h) ==
    [h EXCEPT !.pending = SubSeq(@, 1, Len(@) - 1)]

HomePageMount ==
    /\ home.view = "created"
    /\ home' = HomeAnimationEffect(HomeSyncEffect([home EXCEPT !.view = "mounted"]))
    /\ UNCHANGED <<simulation, phet, quiz>>

\* a frame callback: animate of the effect run that registered it
HomePageAnimate ==
    /\ \E i \in 1..Len(home.pending) :
          home' = [home EXCEPT
                      !.frame = HomeDraw(home, home.pending[i]),
                      !.pending = Append(SubSeq(@, 1, i - 1) \o SubSeq(@, i + 1, Len(@)),
                                         HomeAdvance(home.pending[i]))]
    /\ UNCHANGED <<simulation, phet, quiz>>

\* the checkbox: setShowForceAnalysis(e.target.checked); the animation
\* effect depends on showForceAnalysis and is cleaned up and run again
HomePageToggle ==
    /\ home.view = "mounted"
    /\ home' = HomeAnimationEffect(
                   HomeCleanup([home EXCEPT !.showForceAnalysis = ~@]))
    /\ UNCHANGED <<simulation, phet, quiz>>

NextHomePage == HomePageMount \/ HomePageAnimate \/ HomePageToggle

(***************************************************************************)
(* PhETHomePage (src/src/pages/PhETHomePage.tsx): the same animation built *)
(* from a model object, a scene of six layers and a frame loop.            *)
(*   view               created or mounted                                 *)
(*   showForceAnalysis  the React state the checkbox is bound to           *)
(*   showForceRef       showForceRef.current                               *)
(*   model              the CircularMotionModel object                     *)
(*   effectRuns         how often the animation effect has run             *)
(*   pending            one entry per registered frame callback: the run   *)
(*                      of the animation effect whose animate it is        *)
(*   frame              what the last call of animate drew                 *)
(* Angles are in 1e-5 rad, lengths in 1e-3 pixel.                          *)
(***************************************************************************)
NewCircularMotionModel ==
    [ angle             |-> 0,
      angularVelocity   |-> 5000,
      radius            |-> 70,
      showForceAnalysis |-> FALSE ]

NewPhETHomePage ==
    [ view              |-> "created",
      showForceAnalysis |-> FALSE,
      showForceRef      |-> FALSE,
      model             |-> NewCircularMotionModel,
      effectRuns        |-> 0,
      pending           |-> << >>,
      frame             |-> [angle |-> 0, arrow |-> FALSE] ]

\* CircularMotionModel.step
CircularMotionModelStep(m) ==
    LET advanced == m.angle + m.angularVelocity
    IN  [m EXCEPT !.angle = IF advanced >= TwoPi
                            THEN advanced - TwoPi ELSE advanced]

\* CentripetalForceArrowNode.render: whether it draws
CentripetalForceArrowNodeRender(m, visible) ==
    LET dx == 0 - m.radius * cos(m.angle)
        dy == 0 - ((m.radius * sin(m.angle) * 3) \div 10)
    IN  /\ visible
        /\ m.showForceAnalysis
        /\ ~(dx = 0 /\ dy = 0)

\* one call of animate: scene.step(1), scene.render(ctx)
PhETAnimate(ph) ==
    LET stepped == CircularMotionModelStep(ph.model)
    IN  [ph EXCEPT !.model = stepped,
                   !.frame = [angle |-> stepped.angle,
                              arrow |-> CentripetalForceArrowNodeRender(stepped, TRUE)]]

\* the two effects that depend on showForceAnalysis
PhETSyncEffects(ph) ==
    [ph EXCEPT !.showForceRef = ph.showForceAnalysis,
               !.model.showForceAnalysis = ph.showForceAnalysis]

\* the animation effect: one call of animate, which registers itself
PhETAnimationEffect(ph) ==
    [PhETAnimate(ph) EXCEPT !.effectRuns = @ + 1,
                            !.pending = Append(@, ph.effectRuns + 1)]

PhETHomePageMount ==
    /\ phet.view = "created"
    /\ phet' = PhETSyncEffects(PhETAnimationEffect(
                   PhETSyncEffects([phet EXCEPT !.view = "mounted"])))
    /\ UNCHANGED <<simulation, home, quiz>>

\* a frame callback
PhETHomePageAnimate ==
    /\ \E i \in 1..Len(phet.pending) :
          phet' = [PhETAnimate(phet) EXCEPT
                      !.pending = Append(SubSeq(@, 1, i - 1) \o SubSeq(@, i + 1, Len(@)),
                                         phet.pending[i])]
    /\ UNCHANGED <<simulation, home, quiz>>

\* variant: the animation effect depends on showForceAnalysis, as the one
\* of HomePage does
PhETHomePageToggle_restartsLoop ==
    /\ phet.view = "mounted"
    /\ phet' = PhETSyncEffects(PhETAnimationEffect(
                   [phet EXCEPT !.showForceAnalysis = ~@,
                                !.pending = SubSeq(@, 1, Len(@) - 1)]))
    /\ UNCHANGED <<simulation, home, quiz>>

\* the checkbox: setShowForceAnalysis(e.target.checked) and the effects the
\* change triggers; the animation effect has an empty dependency list
PhETHomePageToggle ==
    /\ phet.view = "mounted"
    /\ phet' = PhETSyncEffects([phet EXCEPT !.showForceAnalysis = ~@])
    /\ UNCHANGED <<simulation, home, quiz>>

NextPhETHomePage == PhETHomePageMount \/ PhETHomePageAnimate \/ PhETHomePageToggle

(***************************************************************************)
(* QuizPage (src/new-circular-motion/src/pages/QuizPage.tsx).              *)
(* A calculation question's numbers are in a unit of its own: question 4   *)
(* in 1e-2 m/s, question 5 in 1e-9 rad/s, question 6 in 1e-1 N; tenth is   *)
(* 0.1 in that unit and explained is the result its explanation derives.   *)
(* The text of a number input is << >> when empty and << n >> when it is   *)
(* the numeral of n.                                                       *)
(***************************************************************************)
questions ==
    << [id |-> 1, type |-> "choice", options |-> 4, correctAnswer |-> 2],
       [id |-> 2, type |-> "choice", options |-> 5, correctAnswer |-> 1],
       [id |-> 3, type |-> "choice", options |-> 4, correctAnswer |-> 2],
       [id |-> 4, type |-> "calculation", correctAnswer |-> 566,
        tolerance |-> 10, tenth |-> 10, explained |-> 566],
       [id |-> 5, type |-> "calculation", correctAnswer |-> 199,
        tolerance |-> 5, tenth |-> 100000000, explained |-> 199],
       [id |-> 6, type |-> "calculation", correctAnswer |-> 80000,
        tolerance |-> 1000, tenth |-> 1, explained |-> 20000],
       [id |-> 7, type |-> "open"] >>

NewQuizPage ==
    [ currentQuestionIndex |-> 0,
      userAnswers          |-> << >>,
      showResults          |-> FALSE,
      uploadedFiles        |-> << >> ]

\* { ...prev, [questionId]: value }
spread(prev, questionId, value) ==
    [id \in DOMAIN prev \cup {questionId} |->
        IF id = questionId THEN value ELSE prev[id]]

handleChoiceAnswer(q, questionId, choiceIndex) ==
    [q EXCEPT !.userAnswers = spread(@, questionId, choiceIndex)]

handleCalculationAnswer(q, questionId, value) ==
    [q EXCEPT !.userAnswers = spread(@, questionId, value)]

handleOpenAnswer(q, questionId, value) ==
    [q EXCEPT !.userAnswers = spread(@, questionId, value)]

\* files is a non-empty list here; null changes nothing
handleFileUpload(q, questionId, files) ==
    [q EXCEPT !.uploadedFiles = spread(@, questionId, files)]

\* variant: the last question is not recognised
nextQuestion_offByOne(q) ==
    IF q.currentQuestionIndex < Len(questions)
    THEN [q EXCEPT !.currentQuestionIndex = @ + 1]
    ELSE [q EXCEPT !.showResults = TRUE]

\* currentQuestionIndex counts from 0
nextQuestion(q) ==
    IF q.currentQuestionIndex < Len(questions) - 1
    THEN [q EXCEPT !.currentQuestionIndex = @ + 1]
    ELSE [q EXCEPT !.showResults = TRUE]

prevQuestion(q) ==
    IF q.currentQuestionIndex > 0
    THEN [q EXCEPT !.currentQuestionIndex = @ - 1]
    ELSE q

\* the restart button of the results view
restart(q) ==
    [q EXCEPT !.showResults = FALSE,
              !.currentQuestionIndex = 0,
              !.userAnswers = << >>,
              !.uploadedFiles = << >>]

\* parseFloat(userAnswers[question.id]): NaN for a missing answer and for
\* an empty text
parseAnswer(userAnswers, questionId) ==
    IF questionId \notin DOMAIN userAnswers THEN NaN
    ELSE IF userAnswers[questionId] = << >> THEN NaN
    ELSE userAnswers[questionId][1]

\* Math.abs(userAnswer - correctAnswer) <= tolerance, false for NaN
withinTolerance(userAnswer, correctAnswer, tolerance) ==
    /\ userAnswer # NaN
    /\ userAnswer - correctAnswer <= tolerance
    /\ correctAnswer - userAnswer <= tolerance

\* whether the body of the forEach in calculateScore counts the question
counted(question, userAnswers) ==
    IF question.type = "choice"
    THEN /\ question.id \in DOMAIN userAnswers
         /\ userAnswers[question.id] = question.correctAnswer
    ELSE IF question.type = "calculation"
    THEN LET userAnswer == parseAnswer(userAnswers, question.id)
             tolerance == IF question.tolerance # 0
                          THEN question.tolerance ELSE question.tenth
         IN  withinTolerance(userAnswer, question.correctAnswer, tolerance)
    ELSE FALSE

RECURSIVE calculateScoreFrom(_, _)
calculateScoreFrom(i, userAnswers) ==
    IF i > Len(questions) THEN 0
    ELSE (IF counted(questions[i], userAnswers) THEN 1 ELSE 0)
             + calculateScoreFrom(i + 1, userAnswers)

calculateScore(userAnswers) == calculateScoreFrom(1, userAnswers)

\* the question on display
currentQuestion == questions[quiz.currentQuestionIndex + 1]

\* what the user enters: for a choice the right option or the one after
\* it, for a calculation the explained result, the stored answer or nothing
ChoiceInputs(question) ==
    { question.correctAnswer, (question.correctAnswer + 1) % question.options }

CalculationInputs(question) ==
    { << >>, << question.explained >>, << question.correctAnswer >> }

QuizChoice ==
    /\ ~quiz.showResults
    /\ currentQuestion.type = "choice"
    /\ \E choiceIndex \in ChoiceInputs(currentQuestion) :
          quiz' = handleChoiceAnswer(quiz, currentQuestion.id, choiceIndex)
    /\ UNCHANGED <<simulation, home, phet>>

QuizCalculation ==
    /\ ~quiz.showResults
    /\ currentQuestion.type = "calculation"
    /\ \E value \in CalculationInputs(currentQuestion) :
          quiz' = handleCalculationAnswer(quiz, currentQuestion.id, value)
    /\ UNCHANGED <<simulation, home, phet>>

QuizOpen ==
    /\ ~quiz.showResults
    /\ currentQuestion.type = "open"
    /\ quiz' = handleOpenAnswer(quiz, currentQuestion.id, "text")
    /\ UNCHANGED <<simulation, home, phet>>

QuizUpload ==
    /\ ~quiz.showResults
    /\ currentQuestion.type \in {"calculation", "open"}
    /\ quiz' = handleFileUpload(quiz, currentQuestion.id, << "file" >>)
    /\ UNCHANGED <<simulation, home, phet>>

QuizNext ==
    /\ ~quiz.showResults
    /\ quiz' = nextQuestion(quiz)
    /\ UNCHANGED <<simulation, home, phet>>

QuizPrev ==
    /\ ~quiz.showResults
    /\ quiz' = prevQuestion(quiz)
    /\ UNCHANGED <<simulation, home, phet>>

QuizRestart ==
    /\ quiz.showResults
    /\ quiz' = restart(quiz)
    /\ UNCHANGED <<simulation, home, phet>>

NextQuizPage ==
    \/ QuizChoice
    \/ QuizCalculation
    \/ QuizOpen
    \/ QuizUpload
    \/ QuizNext
    \/ QuizPrev
    \/ QuizRestart

\* the other pages before they are mounted
OtherPages ==
    /\ home = NewHomePage
    /\ phet = NewPhETHomePage
    /\ quiz = NewQuizPage

(***************************************************************************)
(* view is the life cycle of the page component: created, mounted (its    *)
(* effects have run) or unmounted (their cleanups have run).  pending      *)
(* holds one entry per frame callback registered with                      *)
(* requestAnimationFrame and not yet run or cancelled: the isPaused its    *)
(* animate closure captured; the last entry is the one animationId names.  *)
(* frame is what the last render pass put on the canvas.                   *)
(* History variables (not program state):                                  *)
(*   fresh       no operation wrote the model since the last render pass   *)
(*   op          the operation that produced the current state             *)
(*   pre         the model object as it was before that operation          *)
(*   movingSteps step calls with a moving body since construction, reset   *)
(*               or clearTrajectory                                        *)
(*   snapshot    position and velocity captured by the last break, the     *)
(*               number of step calls made in ROPE_BROKEN state since, and *)
(*               the angle and the centripetal force at the break          *)
(*   sampled     the body positions at every third step call with a moving *)
(*               body since construction, reset or clearTrajectory         *)
(***************************************************************************)
NoSnapshot ==
    [position |-> Vector2(0, 0), velocity |-> Vector2(0, 0), steps |-> 0,
     angle |-> 0, force |-> 0]

Moving(m) == m.state = ROPE_BROKEN \/ m.angularVelocity # 0

Init ==
    /\ model = NewModel
    /\ op = "new"
    /\ pre = NewModel
    /\ nSteps = 0
    /\ nEdits = 0
    /\ movingSteps = 0
    /\ snapshot = NoSnapshot
    /\ sampled = << >>
    /\ frame = NoFrame
    /\ fresh = FALSE
    /\ isPaused = FALSE
    /\ view = "created"
    /\ pending = << >>
    /\ OtherPages

\* A session whose trail is one sample short of its capacity: the model
\* object after NearlyFullSteps step calls on a freshly constructed one
\* (no wrap and no break occur on the way, and every third step samples).
NearlyFullSteps == (maxTrajectoryPoints - 1) * trajectoryInterval

AfterSteps(n) ==
    [NewModel EXCEPT
        !.angle = n * NewModel.angularVelocity * timeScale,
        !.trajectoryPoints =
            [k \in 1..(n \div trajectoryInterval) |->
                getBlockPosition([NewModel EXCEPT
                    !.angle = k * trajectoryInterval
                                * NewModel.angularVelocity * timeScale])],
        !.trajectoryCounter = n % trajectoryInterval]

InitNearlyFull ==
    /\ model = AfterSteps(NearlyFullSteps)
    /\ op = "step"
    /\ pre = AfterSteps(NearlyFullSteps - 1)
    /\ nSteps = 0
    /\ nEdits = 0
    /\ movingSteps = NearlyFullSteps
    /\ snapshot = NoSnapshot
    /\ sampled = AfterSteps(NearlyFullSteps).trajectoryPoints
    /\ frame = NoFrame
    /\ fresh = FALSE
    /\ isPaused = FALSE
    /\ view = "created"
    /\ pending = << >>
    /\ OtherPages

\* the history after a step call on model object m that left it as m2
movingStepsAfter(m, ms) == IF Moving(m) THEN ms + 1 ELSE ms

snapshotAfter(m, m2, snap) ==
    IF m.state = ROPE_BROKEN
    THEN [snap EXCEPT !.steps = @ + 1]
    ELSE IF m2.state = ROPE_BROKEN
         THEN [position |-> m2.brokenPosition,
               velocity |-> m2.brokenVelocity,
               steps |-> 0,
               angle |-> m.angle,
               force |-> m.mass * m.angularVelocity * m.angularVelocity * m.radius]
         ELSE snap

sampledAfter(m, m2, ms, samp) ==
    IF Moving(m) /\ (ms + 1) % 3 = 0
    THEN Append(samp, getBlockPosition(m2))
    ELSE samp

\* SimulationScene.step: one step call on the model object
Step ==
    /\ nSteps < MaxSteps
    /\ model' = step(model)
    /\ op' = "step"
    /\ pre' = model
    /\ nSteps' = nSteps + 1
    /\ movingSteps' = movingStepsAfter(model, movingSteps)
    /\ snapshot' = snapshotAfter(model, model', snapshot)
    /\ sampled' = sampledAfter(model, model', movingSteps, sampled)
    /\ fresh' = FALSE
    /\ UNCHANGED <<nEdits, frame, isPaused, view, pending>>
    /\ UNCHANGED <<home, phet, quiz>>

\* variant: the frame renders before it steps
animate_rendersFirst(paused, m, o, p, ms, snap, samp) ==
    /\ fresh' = TRUE
    /\ IF paused
       THEN /\ LET r == render(m, NodeVisible)
               IN  /\ model' = r.model
                   /\ frame' = FrameOf(FALSE, r)
            /\ op' = o
            /\ pre' = p
            /\ movingSteps' = ms
            /\ snapshot' = snap
            /\ sampled' = samp
            /\ UNCHANGED <<nSteps, nEdits>>
       ELSE /\ nSteps < MaxSteps
            /\ LET r == render(m, NodeVisible)
               IN  /\ model' = step(r.model)
                   /\ frame' = FrameOf(TRUE, r)
            /\ op' = "step"
            /\ pre' = m
            /\ nSteps' = nSteps + 1
            /\ movingSteps' = movingStepsAfter(m, ms)
            /\ snapshot' = snapshotAfter(m, model', snap)
            /\ sampled' = sampledAfter(m, model', ms, samp)
            /\ UNCHANGED nEdits

\* variant: the frame steps whether paused or not
animate_ignoresPause(paused, m, o, p, ms, snap, samp) ==
    /\ fresh' = TRUE
    /\ nSteps < MaxSteps
    /\ LET r == render(step(m), NodeVisible)
       IN  /\ model' = r.model
           /\ frame' = FrameOf(~paused, r)
    /\ op' = "step"
    /\ pre' = m
    /\ nSteps' = nSteps + 1
    /\ movingSteps' = movingStepsAfter(m, ms)
    /\ snapshot' = snapshotAfter(m, model', snap)
    /\ sampled' = sampledAfter(m, model', ms, samp)
    /\ UNCHANGED nEdits

\* one call of animate with the isPaused its loop was created with, on
\* model object m: step unless paused, then the render pass.  o, p, ms,
\* snap and samp are the history of m.
animate(paused, m, o, p, ms, snap, samp) ==
    /\ fresh' = TRUE
    /\ IF paused
       THEN /\ LET r == render(m, NodeVisible)
               IN  /\ model' = r.model
                   /\ frame' = FrameOf(FALSE, r)
            /\ op' = o
            /\ pre' = p
            /\ movingSteps' = ms
            /\ snapshot' = snap
            /\ sampled' = samp
            /\ UNCHANGED <<nSteps, nEdits>>
       ELSE /\ nSteps < MaxSteps
            /\ LET r == render(step(m), NodeVisible)
               IN  /\ model' = r.model
                   /\ frame' = FrameOf(TRUE, r)
            /\ op' = "step"
            /\ pre' = m
            /\ nSteps' = nSteps + 1
            /\ movingSteps' = movingStepsAfter(m, ms)
            /\ snapshot' = snapshotAfter(m, model', snap)
            /\ sampled' = sampledAfter(m, model', ms, samp)
            /\ UNCHANGED nEdits

\* requestAnimationFrame(animate) by the loop whose closure holds paused
requestAnimationFrame(pend, paused) == Append(pend, paused)

\* variant: the cleanup leaves the registered callback in place
cancelAnimationFrame_keeps(pend) == pend

\* cancelAnimationFrame(animationId) of the effect cleanup: animationId is
\* the callback its loop registered last
cancelAnimationFrame(pend) ==
    IF pend = << >> THEN pend ELSE SubSeq(pend, 1, Len(pend) - 1)

\* the page mounts: the parameter sync effect, then the animation effect,
\* which calls animate() and leaves one callback registered
Mount ==
    /\ view = "created"
    /\ view' = "mounted"
    /\ animate(isPaused, syncParameters(model, INITIAL_VALUES), op, pre,
               movingSteps, snapshot, sampled)
    /\ pending' = requestAnimationFrame(pending, isPaused)
    /\ UNCHANGED isPaused
    /\ UNCHANGED <<home, phet, quiz>>

\* the browser runs a registered frame callback, which registers itself
\* again
Frame ==
    /\ \E i \in 1..Len(pending) :
          /\ animate(pending[i], model, op, pre, movingSteps, snapshot, sampled)
          /\ pending' = requestAnimationFrame(
                            SubSeq(pending, 1, i - 1)
                                \o SubSeq(pending, i + 1, Len(pending)),
                            pending[i])
    /\ UNCHANGED <<isPaused, view>>
    /\ UNCHANGED <<home, phet, quiz>>

\* variant: the animation effect has no cleanup
TogglePause_noCleanup ==
    /\ view = "mounted"
    /\ isPaused' = ~isPaused
    /\ animate(~isPaused, model, op, pre, movingSteps, snapshot, sampled)
    /\ pending' = requestAnimationFrame(pending, ~isPaused)
    /\ UNCHANGED view
    /\ UNCHANGED <<home, phet, quiz>>

\* the pause button: setIsPaused(!isPaused); the animation effect is
\* cleaned up and re-run, and calls animate() of the new loop at once
TogglePause ==
    /\ view = "mounted"
    /\ isPaused' = ~isPaused
    /\ animate(~isPaused, model, op, pre, movingSteps, snapshot, sampled)
    /\ pending' = requestAnimationFrame(cancelAnimationFrame(pending), ~isPaused)
    /\ UNCHANGED view
    /\ UNCHANGED <<home, phet, quiz>>

\* The state updates of a click handler are committed, and the effects they
\* trigger run, before the handler's task ends: the model is written only
\* from frame callbacks and from synchronous UI-event handlers.  Here the
\* parameter sync effect writes the committed settings into the model.
\* variant: the effect runs in a later task, after the next frame callback
flushPassiveEffects_deferred(m, settings) == m

flushPassiveEffects(m, settings) == syncParameters(m, settings)

\* variant: the reset button leaves the pause state alone
handleReset_keepsPause ==
    /\ view = "mounted"
    /\ model' = syncParameters(reset(model), INITIAL_VALUES)
    /\ op' = "reset"
    /\ pre' = model
    /\ movingSteps' = 0
    /\ snapshot' = NoSnapshot
    /\ sampled' = << >>
    /\ fresh' = FALSE
    /\ UNCHANGED <<nSteps, nEdits, frame, pending, isPaused, view>>
    /\ UNCHANGED <<home, phet, quiz>>

\* the reset button: model.reset(), the five setters and
\* setIsPaused(false); then the parameter sync effect and, when isPaused
\* changed, the animation effect with its call of animate()
handleReset ==
    LET m == flushPassiveEffects(reset(model), INITIAL_VALUES)
    IN  /\ view = "mounted"
        /\ isPaused' = FALSE
        /\ IF isPaused
           THEN /\ animate(FALSE, m, "reset", model, 0, NoSnapshot, << >>)
                /\ pending' = requestAnimationFrame(
                                  cancelAnimationFrame(pending), FALSE)
           ELSE /\ model' = m
                /\ op' = "reset"
                /\ pre' = model
                /\ movingSteps' = 0
                /\ snapshot' = NoSnapshot
                /\ sampled' = << >>
                /\ fresh' = FALSE
                /\ UNCHANGED <<nSteps, nEdits, frame, pending>>
        /\ UNCHANGED view
        /\ UNCHANGED <<home, phet, quiz>>

\* the page unmounts: the cleanup of the animation effect
Unmount ==
    /\ view = "mounted"
    /\ view' = "unmounted"
    /\ pending' = cancelAnimationFrame(pending)
    /\ UNCHANGED <<model, isPaused, frame, fresh, op, pre, nSteps, nEdits,
                   movingSteps, snapshot, sampled>>
    /\ UNCHANGED <<home, phet, quiz>>

Reset ==
    /\ model' = reset(model)
    /\ op' = "reset"
    /\ pre' = model
    /\ movingSteps' = 0
    /\ snapshot' = NoSnapshot
    /\ sampled' = << >>
    /\ fresh' = FALSE
    /\ UNCHANGED <<nSteps, nEdits, frame, isPaused, view, pending>>
    /\ UNCHANGED <<home, phet, quiz>>

ClearTrajectory ==
    /\ model' = clearTrajectory(model)
    /\ op' = "clear"
    /\ pre' = model
    /\ movingSteps' = 0
    /\ sampled' = << >>
    /\ fresh' = FALSE
    /\ UNCHANGED <<nSteps, nEdits, snapshot, frame, isPaused, view, pending>>
    /\ UNCHANGED <<home, phet, quiz>>

assignParameters(settings) ==
    /\ nEdits < MaxEdits
    /\ \E p \in settings :
          /\ model' = syncParameters(model, p)
    /\ op' = "edit"
    /\ pre' = model
    /\ nEdits' = nEdits + 1
    /\ fresh' = FALSE
    /\ UNCHANGED <<nSteps, movingSteps, snapshot, sampled, frame, isPaused,
                   view, pending>>
    /\ UNCHANGED <<home, phet, quiz>>

\* assignment of the five parameter fields of the model object
SyncParameters == assignParameters(ParameterSettings)

\* a slider or direction button of the page, followed by the sync effect
ChangeParameters ==
    /\ view = "mounted"
    /\ assignParameters(ControlSettings)

\* the clear-trajectory button of the page
ClearButton ==
    /\ view = "mounted"
    /\ ClearTrajectory

\* Parameter values the number inputs of the page accept when typed: every
\* combination of these masses, angular velocities, radii and tensions,
\* zero mass and zero radius included.
InputSettings ==
    { Parameters(ms, w, t, r, CLOCKWISE) :
        ms \in {0, 1, 100}, w \in {0, 50, 100, 500}, t \in {0, 50000000},
        r \in {0, 10, 30} }

\* a new model object with typed parameter values synced into it
InitInputs ==
    /\ \E p \in InputSettings :
          /\ model = syncParameters(NewModel, p)
          /\ pre = syncParameters(NewModel, p)
    /\ op = "edit"
    /\ nSteps = 0
    /\ nEdits = 0
    /\ movingSteps = 0
    /\ snapshot = NoSnapshot
    /\ sampled = << >>
    /\ frame = NoFrame
    /\ fresh = FALSE
    /\ isPaused = FALSE
    /\ view = "created"
    /\ pending = << >>
    /\ OtherPages

(***************************************************************************)
(* The same class with an angular velocity far below the slider step.  The *)
(* number input of a ParameterControl hands parseFloat of its text to      *)
(* onChange, so a pasted value such as 1e-15 reaches the model.  At such   *)
(* values the rounding of the double additions in step decides what the    *)
(* program does, and positions are kept to the last bit:                   *)
(*   angularVelocity  2^-57 rad/s                                          *)
(*   linearVelocity   2^-57 * 1e-1 m/s, velocity vectors the same          *)
(*   a position       the double it was set to at the break (base, in      *)
(*                    1e-4 pixel) plus a whole number of units in the last *)
(*                    place of that double (ulps)                          *)
(*   displacements    2^-65 pixel                                          *)
(* mass, radius, maxTension and the angle are in the units of the rest of  *)
(* the module.                                                             *)
(***************************************************************************)
Double(base, ulps) == [base |-> base, ulps |-> ulps]

\* the unit in the last place of a double of magnitude base (1 pixel or
\* more), in 2^-65 pixel: 2^(e - 52) pixel where 2^e <= base < 2^(e + 1)
ulp(base) ==
    LET e == CHOOSE n \in 0..12 :
                 /\ (2 ^ n) * 10000 <= base
                 /\ base < (2 ^ (n + 1)) * 10000
    IN  2 ^ (e + 13)

\* d in whole multiples of u, rounded to nearest, ties to even
roundTiesToEven(d, u) ==
    LET q == d \div u
        r == d % u
    IN  IF 2 * r < u THEN q
        ELSE IF 2 * r > u THEN q + 1
        ELSE IF q % 2 = 0 THEN q ELSE q + 1

\* p += d in IEEE double arithmetic, p staying in its binade
addDouble(p, d) == [p EXCEPT !.ulps = @ + roundTiesToEven(d, ulp(p.base))]

\* components below one unit (v * cos(pi / 2) = v * 6e-17) are dropped
getCurrentVelocityTyped(m) ==
    LET tangentAngle == m.angle + HalfPi
        velocity == linearVelocity(m)
    IN  Vector2((velocity * cos(tangentAngle)) \div 1000,
                (velocity * sin(tangentAngle)) \div 1000)

breakRopeTyped(m) ==
    LET currentPosition == getBlockPosition(m)
        currentVelocity == getCurrentVelocityTyped(m)
    IN  [m EXCEPT !.state = ROPE_BROKEN,
                  !.brokenPosition = Vector2(Double(currentPosition.x, 0),
                                             Double(currentPosition.y, 0)),
                  !.brokenVelocity = currentVelocity]

\* v * pixelsPerMeter * timeScale: v * 0.1 * 100 * 0.016 * 2^8
pixelsPerFrameTyped(v) == (v * 4096) \div 100

\* the else-branch of step, lines 82-90
advanceBrokenTyped(m) ==
    LET velocityPixelsPerFrame ==
            Vector2(pixelsPerFrameTyped(m.brokenVelocity.x),
                    (pixelsPerFrameTyped(m.brokenVelocity.y) * 3) \div 10)
    IN  [m EXCEPT !.brokenPosition =
                      Vector2(addDouble(m.brokenPosition.x, velocityPixelsPerFrame.x),
                              addDouble(m.brokenPosition.y, velocityPixelsPerFrame.y))]

\* step; a turn of the rope by less than 1e-5 rad leaves the angle as it is
stepTyped(m) ==
    IF m.state = NORMAL_CIRCULAR_MOTION
    THEN IF m.angularVelocity = 0
         THEN m
         ELSE IF centripetalForce(m) > m.maxTension
              THEN collectTrajectoryPoint(breakRopeTyped(m))
              ELSE collectTrajectoryPoint(m)
    ELSE collectTrajectoryPoint(advanceBrokenTyped(m))

\* pasted angular velocities between 0 and 3.2e-13 rad/s: 144 is about
\* 1e-15 rad/s, 14411 about 1e-13 rad/s
TypedAngularVelocities ==
    { 0, 1, 2, 144, 1000, 10000, 14411, 20000, 30000, 40000, 42666, 42667,
      43000, 44000, 45000, 46000, 46340 }

\* a new model object with the mass slider at 0.01 kg, the radius slider at
\* 0.1 m, the maximum-tension slider at 0 and a pasted angular velocity
InitTyped ==
    /\ \E w \in TypedAngularVelocities :
          /\ model = [syncParameters(NewModel, Parameters(1, w, 0, 1, CLOCKWISE))
                         EXCEPT !.brokenPosition = Vector2(Double(0, 0), Double(0, 0))]
          /\ pre = [syncParameters(NewModel, Parameters(1, w, 0, 1, CLOCKWISE))
                       EXCEPT !.brokenPosition = Vector2(Double(0, 0), Double(0, 0))]
    /\ op = "edit"
    /\ nSteps = 0
    /\ nEdits = 0
    /\ movingSteps = 0
    /\ snapshot = NoSnapshot
    /\ sampled = << >>
    /\ frame = NoFrame
    /\ fresh = FALSE
    /\ isPaused = FALSE
    /\ view = "created"
    /\ pending = << >>
    /\ OtherPages

StepTyped ==
    /\ nSteps < MaxSteps
    /\ model' = stepTyped(model)
    /\ op' = "step"
    /\ pre' = model
    /\ nSteps' = nSteps + 1
    /\ UNCHANGED <<nEdits, movingSteps, snapshot, sampled, frame, fresh,
                   isPaused, view, pending>>
    /\ UNCHANGED <<home, phet, quiz>>

\* the operations of the model object
Next == Step \/ Reset \/ ClearTrajectory \/ SyncParameters

\* the events of the simulation page
NextPage ==
    \/ Mount
    \/ Frame
    \/ TogglePause
    \/ handleReset
    \/ ClearButton
    \/ ChangeParameters

\* the events of the simulation page, its unmounting included
NextLoop == NextPage \/ Unmount

Spec == Init /\ [][Next]_vars

SpecNearlyFull == InitNearlyFull /\ [][Next]_vars

\* the mounted page; unmounting ends a session and is left to SpecLoop
SpecPage == Init /\ [][NextPage]_vars

SpecLoop == Init /\ [][NextLoop]_vars

\* step calls on a model object with typed parameter values
SpecInputs == InitInputs /\ [][Step]_vars

\* step calls on a model object with a pasted angular velocity
SpecTyped == InitTyped /\ [][StepTyped]_vars

SpecHomePage == Init /\ [][NextHomePage]_vars

SpecPhETHomePage == Init /\ [][NextPhETHomePage]_vars

SpecQuizPage == Init /\ [][NextQuizPage]_vars

(***************************************************************************)
(* Shorthands used by the properties.                                      *)
(***************************************************************************)
Normal(m) == m.state = NORMAL_CIRCULAR_MOTION
Broken(m) == m.state = ROPE_BROKEN

\* m * w^2 * r and the rope's capacity, both in 1e-7 N, from the fields
ForceOf(m) == m.mass * (m.angularVelocity * m.angularVelocity) * m.radius
LimitOf(m) == m.maxTension

\* a step call was the last operation and it found the model in NORMAL
\* state with a nonzero angular velocity
SteppedNormalMoving == op = "step" /\ Normal(pre) /\ pre.angularVelocity # 0

\* the last operation was the step call that broke the rope
SteppedBreak == op = "step" /\ Normal(pre) /\ Broken(model)

(***************************************************************************)
(* C1  State monotonicity: once the state is ROPE_BROKEN, every operation  *)
(* other than reset() leaves it ROPE_BROKEN, whatever the parameters are,  *)
(* and reset() returns it to NORMAL_CIRCULAR_MOTION.                       *)
(***************************************************************************)
C1_StateMonotonic ==
    Broken(pre) =>
        IF op = "reset" THEN Normal(model) ELSE Broken(model)

\* a step call in ROPE_BROKEN state, made after the parameters were edited
\* so that the force is back under the limit, left the state ROPE_BROKEN
C1_Witness ==
    /\ op = "step"
    /\ Broken(pre)
    /\ pre.angularVelocity # 0
    /\ ForceOf(pre) <= LimitOf(pre)
    /\ Broken(model)

(***************************************************************************)
(* C2  The break threshold is strict: a step in NORMAL state with a        *)
(* nonzero angular velocity breaks the rope iff centripetalForce >         *)
(* maxTension.  With mass 2, radius 1, maxTension 50 it breaks iff         *)
(* angularVelocity^2 > 25, and at angularVelocity = 5 the step keeps the   *)
(* state NORMAL and advances the angle.                                    *)
(***************************************************************************)
C2_BreakThresholdStrict ==
    SteppedNormalMoving =>
        /\ Broken(model) <=> ForceOf(pre) > LimitOf(pre)
        /\ (pre.mass = 200 /\ pre.radius = 10 /\ pre.maxTension = 500000000) =>
              (Broken(model) <=> pre.angularVelocity * pre.angularVelocity > 250000)
        /\ ForceOf(pre) = LimitOf(pre) =>
              /\ Normal(model)
              /\ model.angle # pre.angle

\* a step at mass 2, radius 1, maxTension 50, angularVelocity 5
C2_Witness ==
    /\ SteppedNormalMoving
    /\ pre.mass = 200 /\ pre.radius = 10 /\ pre.maxTension = 500000000
    /\ pre.angularVelocity = 500
    /\ Normal(model)
    /\ model.angle # pre.angle

(***************************************************************************)
(* C3  Threshold sweep, as claimed: a step leaves the model NORMAL when    *)
(* the force is below maxTension and BROKEN when the force is at or above  *)
(* maxTension, equality included.                                          *)
(***************************************************************************)
C3_SweepAtOrAbove ==
    SteppedNormalMoving =>
        /\ ForceOf(pre) < LimitOf(pre) => Normal(model)
        /\ ForceOf(pre) >= LimitOf(pre) => Broken(model)

(***************************************************************************)
(* C3 (amended)  Threshold sweep: a step leaves the model NORMAL for every *)
(* angular velocity whose force is at or below maxTension and puts it in   *)
(* BROKEN for every angular velocity whose force is strictly above it.     *)
(***************************************************************************)
C3_SweepStrictlyAbove ==
    SteppedNormalMoving =>
        /\ ForceOf(pre) <= LimitOf(pre) => Normal(model)
        /\ ForceOf(pre) > LimitOf(pre) => Broken(model) /\ model.angle = pre.angle

\* mass 0.5, radius 0.8, maxTension 20: the first swept value above
\* sqrt(50) broke the rope
C3_Witness ==
    /\ SteppedNormalMoving
    /\ pre.mass = 50 /\ pre.radius = 8 /\ pre.maxTension = 200000000
    /\ pre.angularVelocity = 708
    /\ Broken(model)

(***************************************************************************)
(* C4  Angle wrap: in every reachable state, for every value assigned to   *)
(* the parameters between steps, angle is in [0, 2*pi).                    *)
(***************************************************************************)
C4_AngleInRange ==
    0 <= model.angle /\ model.angle < TwoPi

(***************************************************************************)
(* C5  Trajectory bound: between operations trajectoryPoints never holds   *)
(* more than maxTrajectoryPoints (200) points, in NORMAL and in BROKEN     *)
(* state.                                                                  *)
(***************************************************************************)
C5_TrajectoryBound ==
    /\ model.maxTrajectoryPoints = 200
    /\ Len(model.trajectoryPoints) <= model.maxTrajectoryPoints

\* a sampling step in ROPE_BROKEN state found the trail full
C5_Witness ==
    /\ op = "step"
    /\ Broken(pre)
    /\ Len(pre.trajectoryPoints) = 200
    /\ pre.trajectoryCounter = trajectoryInterval - 1
    /\ Len(model.trajectoryPoints) = 200
    /\ model.trajectoryPoints # pre.trajectoryPoints

(***************************************************************************)
(* C6  Sampling interval: after n step calls with a moving body since      *)
(* construction, reset or clearTrajectory, the trail holds floor(n/3)      *)
(* points while that is within the capacity; a point is appended on every  *)
(* third such step, the step that breaks the rope included.                *)
(***************************************************************************)
C6_SamplingInterval ==
    /\ movingSteps \div 3 <= 200 => Len(model.trajectoryPoints) = movingSteps \div 3
    /\ model.trajectoryCounter = movingSteps % 3
    /\ (op = "step" /\ Moving(pre)) =>
          IF movingSteps % 3 = 0
          THEN model.trajectoryPoints[Len(model.trajectoryPoints)]
                  = getBlockPosition(model)
          ELSE model.trajectoryPoints = pre.trajectoryPoints

\* the step that broke the rope was a third step and appended a point
C6_Witness ==
    /\ SteppedBreak
    /\ movingSteps % 3 = 0
    /\ movingSteps \div 3 <= 200
    /\ Len(model.trajectoryPoints) = Len(pre.trajectoryPoints) + 1

(***************************************************************************)
(* C7  Sampling at rest, as claimed: a step in NORMAL state with           *)
(* angularVelocity = 0 leaves angle and body position unchanged but        *)
(* advances the sampling counter, every third such step appending the      *)
(* current position.                                                       *)
(***************************************************************************)
C7_RestStillSamples ==
    (op = "step" /\ Normal(pre) /\ pre.angularVelocity = 0) =>
        /\ model.angle = pre.angle
        /\ getBlockPosition(model) = getBlockPosition(pre)
        /\ model.trajectoryCounter = (pre.trajectoryCounter + 1) % 3
        /\ pre.trajectoryCounter = 2 =>
              /\ Len(model.trajectoryPoints) > 0
              /\ model.trajectoryPoints[Len(model.trajectoryPoints)]
                    = getBlockPosition(pre)

(***************************************************************************)
(* C7 (amended)  A step in NORMAL state with angularVelocity = 0 leaves    *)
(* angle and body position unchanged and does not sample: the step counter *)
(* and trajectoryPoints are unchanged too.                                 *)
(***************************************************************************)
C7_RestDoesNotSample ==
    (op = "step" /\ Normal(pre) /\ pre.angularVelocity = 0) =>
        /\ model.angle = pre.angle
        /\ getBlockPosition(model) = getBlockPosition(pre)
        /\ model.trajectoryCounter = pre.trajectoryCounter
        /\ model.trajectoryPoints = pre.trajectoryPoints

\* a step at rest taken when the next sampling step was due
C7_Witness ==
    /\ op = "step" /\ Normal(pre) /\ pre.angularVelocity = 0
    /\ pre.trajectoryCounter = 2
    /\ model.trajectoryCounter = 2

(***************************************************************************)
(* C8  Break velocity follows the rotation direction: the velocity         *)
(* captured at the transition is the tangent at the current angle times    *)
(* the direction sign (COUNTERCLOCKWISE is the negation of CLOCKWISE), and *)
(* the first BROKEN step displaces the body the same way as a further      *)
(* NORMAL step would have.                                                 *)
(***************************************************************************)
C8_BreakVelocityFollowsDirection ==
    SteppedBreak =>
        LET d  == IF pre.rotationDirection = CLOCKWISE THEN 1 ELSE -1
            lv == pre.angularVelocity * pre.radius
            here == getBlockPosition(pre)
            there == getBlockPosition(advanceAngle(pre))
            after == getBlockPosition(advanceBroken(model))
            nx == (there.x - here.x) \div 100
            ny == (there.y - here.y) \div 100
            bx == (after.x - model.brokenPosition.x) \div 100
            by == (after.y - model.brokenPosition.y) \div 100
        IN  /\ model.brokenVelocity =
                  Vector2(d * lv * cos(pre.angle + HalfPi),
                          d * lv * sin(pre.angle + HalfPi))
            /\ nx * bx + ny * by >= 0

(***************************************************************************)
(* C9  Transition capture: the step that breaks the rope does not advance  *)
(* angle, sets brokenPosition to the NORMAL-state position at that angle,  *)
(* captures a velocity of magnitude angularVelocity * radius, and leaves   *)
(* the body where it was.                                                  *)
(***************************************************************************)
C9_TransitionCapture ==
    SteppedBreak =>
        LET lv == pre.angularVelocity * pre.radius
            ux == model.brokenVelocity.x \div lv
            uy == model.brokenVelocity.y \div lv
        IN  /\ model.angle = pre.angle
            /\ model.brokenPosition =
                  Vector2(pre.centerPosition.x
                              + pre.radius * pixelsPerMeter * cos(pre.angle),
                          pre.centerPosition.y
                              + (pre.radius * pixelsPerMeter * sin(pre.angle) * 3) \div 10)
            /\ lv # 0
            /\ model.brokenVelocity = Vector2(ux * lv, uy * lv)
            /\ ux * ux + uy * uy >= 996004
            /\ ux * ux + uy * uy <= 1004004
            /\ getBlockPosition(model) = getBlockPosition(pre)

\* the rope broke after the body had moved away from angle 0
C9_Witness ==
    /\ SteppedBreak
    /\ pre.angle # 0
    /\ model.brokenPosition # Vector2(0, 0)

(***************************************************************************)
(* C10  Frozen snapshot independence: in BROKEN state the body position    *)
(* after k steps is the position captured at the break plus k times the    *)
(* per-frame displacement of the velocity captured at the break, whatever  *)
(* was assigned to the parameters since.                                   *)
(***************************************************************************)
C10_FrozenSnapshot ==
    Broken(model) =>
        /\ model.brokenVelocity = snapshot.velocity
        /\ model.brokenPosition =
              Vector2(snapshot.position.x
                          + snapshot.steps * pixelsPerFrame(snapshot.velocity.x),
                      snapshot.position.y
                          + snapshot.steps
                              * ((pixelsPerFrame(snapshot.velocity.y) * 3) \div 10))
        /\ getBlockPosition(model) = model.brokenPosition

\* a later step after the break, taken after angularVelocity was set to 0,
\* still moved the body
C10_Witness ==
    /\ op = "step"
    /\ Broken(pre)
    /\ snapshot.steps >= 2
    /\ pre.angularVelocity = 0
    /\ snapshot.velocity # Vector2(0, 0)
    /\ model.brokenPosition # pre.brokenPosition

(***************************************************************************)
(* C11  Uniform rectilinear motion: every step in BROKEN state adds to     *)
(* brokenPosition the displacement (v.x * pixelsPerMeter * timeScale,      *)
(* v.y * pixelsPerMeter * timeScale * 0.3) of the unchanged                *)
(* brokenVelocity v, the 0.3 applying to the y component only.             *)
(***************************************************************************)
C11_UniformMotion ==
    (op = "step" /\ Broken(pre)) =>
        /\ model.brokenVelocity = pre.brokenVelocity
        /\ model.brokenPosition.x - pre.brokenPosition.x
              = (pre.brokenVelocity.x * 16) \div 1000
        /\ model.brokenPosition.y - pre.brokenPosition.y
              = (((pre.brokenVelocity.y * 16) \div 1000) * 3) \div 10

\* a BROKEN step of a body whose velocity has two nonzero components
C11_Witness ==
    /\ op = "step" /\ Broken(pre)
    /\ pre.brokenVelocity.x # 0 /\ pre.brokenVelocity.y # 0
    /\ model.brokenPosition.x # pre.brokenPosition.x
    /\ model.brokenPosition.y # pre.brokenPosition.y

(***************************************************************************)
(* C12  Frozen quantities, as claimed: once the state is BROKEN, angle and *)
(* centripetalForce keep the values they had at the transition across all  *)
(* later step calls and parameter assignments, until reset().              *)
(***************************************************************************)
C12_AngleAndForceFrozen ==
    Broken(model) =>
        /\ model.angle = snapshot.angle
        /\ centripetalForce(model) = snapshot.force

(***************************************************************************)
(* C12 (amended)  Once the state is BROKEN, angle keeps the value it had   *)
(* at the transition until reset(); centripetalForce is not stored: step   *)
(* and clearTrajectory leave it unchanged, and after a parameter           *)
(* assignment it is mass * angularVelocity^2 * radius of the new values.   *)
(***************************************************************************)
C12_AngleFrozenForceLive ==
    Broken(model) =>
        /\ model.angle = snapshot.angle
        /\ op \in {"step", "clear"} => centripetalForce(model) = ForceOf(pre)
        /\ centripetalForce(model) = ForceOf(model)

\* a BROKEN step taken after an edit changed the force: the angle is the
\* one of the break, the force is not
C12_Witness ==
    /\ op = "step" /\ Broken(pre)
    /\ snapshot.angle # 0
    /\ model.angle = snapshot.angle
    /\ centripetalForce(model) # snapshot.force

(***************************************************************************)
(* C13  Reset idempotence: reset() leaves angle = 0, state = NORMAL, an    *)
(* empty trajectory, sampling counter 0 and zeroed brokenPosition and      *)
(* brokenVelocity, and a second reset() changes nothing more: from every   *)
(* reachable state reset();reset() yields the same model as reset().       *)
(***************************************************************************)
C13_ResetIdempotent ==
    /\ op = "reset" =>
          /\ model.angle = 0
          /\ Normal(model)
          /\ model.trajectoryPoints = << >>
          /\ model.trajectoryCounter = 0
          /\ model.brokenPosition = Vector2(0, 0)
          /\ model.brokenVelocity = Vector2(0, 0)
          /\ reset(model) = model
    /\ (op = "reset" /\ pre.state = NORMAL_CIRCULAR_MOTION /\ pre.angle = 0
            /\ pre.trajectoryPoints = << >> /\ pre.trajectoryCounter = 0
            /\ pre.brokenPosition = Vector2(0, 0)
            /\ pre.brokenVelocity = Vector2(0, 0)) => model = pre
    /\ reset(reset(model)) = reset(model)

\* a second reset() in a row, in a session that has stepped with edited
\* parameters
C13_Witness ==
    /\ op = "reset"
    /\ pre = model
    /\ nSteps > 0
    /\ model.maxTension = 0

(***************************************************************************)
(* C14  Model.reset() leaves the externally controlled parameters          *)
(* unchanged: mass, angularVelocity, maxTension, radius,                   *)
(* rotationDirection, centerPosition and maxTrajectoryPoints.              *)
(***************************************************************************)
C14_ResetKeepsParameters ==
    op = "reset" =>
        /\ model.mass = pre.mass
        /\ model.angularVelocity = pre.angularVelocity
        /\ model.maxTension = pre.maxTension
        /\ model.radius = pre.radius
        /\ model.rotationDirection = pre.rotationDirection
        /\ model.centerPosition = pre.centerPosition
        /\ model.maxTrajectoryPoints = pre.maxTrajectoryPoints

\* a reset() of a broken model whose parameters are not the initial ones
C14_Witness ==
    /\ op = "reset"
    /\ Broken(pre)
    /\ pre.maxTension = 0
    /\ pre.rotationDirection = COUNTERCLOCKWISE
    /\ model.maxTension = 0

(***************************************************************************)
(* C15  clearTrajectory() empties trajectoryPoints, resets the sampling    *)
(* counter to 0 and changes nothing else, so a broken body keeps moving    *)
(* from where it was, and the next point is appended exactly on the third  *)
(* moving step after the clear.                                            *)
(***************************************************************************)
C15_ClearFrame ==
    /\ op = "clear" =>
          /\ model.trajectoryPoints = << >>
          /\ model.trajectoryCounter = 0
          /\ [model EXCEPT !.trajectoryPoints = pre.trajectoryPoints,
                           !.trajectoryCounter = pre.trajectoryCounter] = pre
          /\ getBlockPosition(model) = getBlockPosition(pre)
    /\ (Broken(model) /\ snapshot.steps > movingSteps) =>
          /\ movingSteps < 3 => model.trajectoryPoints = << >>
          /\ movingSteps = 3 => model.trajectoryPoints = << model.brokenPosition >>
          /\ model.brokenPosition.x
                = snapshot.position.x
                    + snapshot.steps * ((snapshot.velocity.x * 16) \div 1000)

\* the third step after a clearTrajectory() made in BROKEN state
C15_Witness ==
    /\ op = "step" /\ Broken(pre)
    /\ snapshot.steps > movingSteps
    /\ movingSteps = 3
    /\ Len(model.trajectoryPoints) = 1
    /\ Len(pre.trajectoryPoints) = 0

(***************************************************************************)
(* C16  Strict FIFO trail: trajectoryPoints is the contiguous suffix, in   *)
(* chronological order, of the positions sampled since the last            *)
(* reset/clearTrajectory that holds the most recent maxTrajectoryPoints    *)
(* of them; a sample appended to a full buffer evicts exactly the oldest   *)
(* point.                                                                  *)
(***************************************************************************)
C16_StrictFifo ==
    LET n == Len(sampled)
        k == IF n > 200 THEN 200 ELSE n
    IN  /\ model.trajectoryPoints = SubSeq(sampled, n - k + 1, n)
        /\ (op = "step" /\ Len(pre.trajectoryPoints) = 200
               /\ model.trajectoryPoints # pre.trajectoryPoints) =>
              model.trajectoryPoints
                  = Append(Tail(pre.trajectoryPoints), getBlockPosition(model))

\* 201 positions have been sampled: the trail holds the last 200 of them
C16_Witness ==
    /\ Len(sampled) = 201
    /\ Len(model.trajectoryPoints) = 200
    /\ model.trajectoryPoints[1] = sampled[2]
    /\ model.trajectoryPoints[200] = sampled[201]
    /\ sampled[1] # sampled[2]

(***************************************************************************)
(* C17  Rotation direction sign: a step in NORMAL state with               *)
(* angularVelocity > 0 and centripetalForce <= maxTension changes angle by *)
(* +angularVelocity * timeScale modulo 2*pi when rotationDirection is      *)
(* CLOCKWISE and by -angularVelocity * timeScale modulo 2*pi when it is    *)
(* COUNTERCLOCKWISE, the direction being the one set when the step runs.   *)
(***************************************************************************)
C17_DirectionSign ==
    (SteppedNormalMoving /\ pre.angularVelocity > 0
        /\ ForceOf(pre) <= LimitOf(pre)) =>
        LET inc == pre.angularVelocity * 16
            target == IF pre.rotationDirection = CLOCKWISE
                      THEN pre.angle + inc ELSE pre.angle - inc
        IN  /\ (model.angle - target) % TwoPi = 0
            /\ model.angle # pre.angle
            /\ (0 <= pre.angle /\ pre.angle < TwoPi /\ inc < TwoPi) =>
                  model.angle = target % TwoPi

\* one CLOCKWISE step from angle 0, then the direction was switched and the
\* next step brought the angle back to 0
C17_Witness ==
    /\ SteppedNormalMoving
    /\ pre.rotationDirection = COUNTERCLOCKWISE
    /\ pre.angle = 800
    /\ model.angle = 0

(***************************************************************************)
(* C18  Derived quantities: in every state centripetalForce is             *)
(* mass * angularVelocity^2 * radius and linearVelocity is                 *)
(* angularVelocity * radius of the current field values; mass 1,           *)
(* angularVelocity 2, radius 3 give 12 N and 6 m/s.                        *)
(***************************************************************************)
C18_DerivedQuantities ==
    /\ centripetalForce(model)
          = model.mass * (model.angularVelocity * model.angularVelocity)
              * model.radius
    /\ linearVelocity(model) = model.radius * model.angularVelocity
    /\ (model.mass = 100 /\ model.angularVelocity = 200 /\ model.radius = 30) =>
          /\ centripetalForce(model) = 120000000
          /\ linearVelocity(model) = 6000
    /\ op = "edit" =>
          /\ centripetalForce(model) = ForceOf(model)
          /\ (ForceOf(model) # ForceOf(pre)) =>
                centripetalForce(model) # centripetalForce(pre)

\* the model holds mass 1, angularVelocity 2, radius 3 after an edit that
\* changed the force
C18_Witness ==
    /\ op = "edit"
    /\ model.mass = 100 /\ model.angularVelocity = 200 /\ model.radius = 30
    /\ centripetalForce(model) = 120000000
    /\ centripetalForce(pre) # 120000000
    /\ linearVelocity(model) = 6000

(***************************************************************************)
(* C19  Render layers are read-only on the model: a full render pass, in   *)
(* either state and whatever the visible flags, leaves every field of the  *)
(* model object as it was (each layer's render does, visible or hidden,    *)
(* and so does the pass with all layers visible and with all hidden); the  *)
(* model object is always exactly what the last step, reset,               *)
(* clearTrajectory or parameter assignment made of it, however many render *)
(* passes ran since.                                                       *)
(***************************************************************************)
VisibilityChoices == { NodeVisible, [n \in NodeNames |-> FALSE] }

C19_RenderReadOnly ==
    /\ \A vis \in VisibilityChoices : render(model, vis).model = model
    /\ \A n \in NodeNames :
          \A visible \in BOOLEAN : nodeRender(n, model, visible).model = model
    /\ op = "new" => model = NewModel
    /\ op = "step" => model = step(pre)
    /\ op = "reset" => model = syncParameters(reset(pre), INITIAL_VALUES)
    /\ op = "clear" => model = clearTrajectory(pre)
    /\ op = "edit" => \E p \in ControlSettings : model = syncParameters(pre, p)

\* a paused frame ran the render pass over a model in ROPE_BROKEN state
\* whose brokenPosition the last step had moved
C19_Witness ==
    /\ isPaused
    /\ ~frame.stepped
    /\ Len(frame.invoked) = 10
    /\ op = "step"
    /\ Broken(pre) /\ Broken(model)
    /\ model.brokenPosition # pre.brokenPosition

(***************************************************************************)
(* C20  Fixed draw order: every frame calls the layers' render in the      *)
(* order backdrop plane, orbit guide, pivot marker, rope, trajectory       *)
(* trail, body marker, centripetal-acceleration arrow, linear-velocity     *)
(* arrow, angular-velocity arrow, status text, and the layers that draw    *)
(* do so in that order; this holds after pause, reset, break and           *)
(* parameter edits.                                                        *)
(***************************************************************************)
DrawOrder ==
    << "PlaneNode", "TrajectoryNode", "CenterNode", "RopeNode",
       "TrajectoryPathNode", "BlockNode", "CentripetalAccelerationArrowNode",
       "LinearVelocityArrowNode", "AngularVelocityArrowNode",
       "StatusTextNode" >>

DrawRank(n) == CHOOSE k \in 1..Len(DrawOrder) : DrawOrder[k] = n

C20_FixedDrawOrder ==
    frame # NoFrame =>
        /\ frame.invoked = DrawOrder
        /\ \A i \in 1..Len(frame.drawn) :
              /\ \E k \in 1..Len(DrawOrder) : DrawOrder[k] = frame.drawn[i]
              /\ \A j \in 1..Len(frame.drawn) :
                    i < j => DrawRank(frame.drawn[i]) < DrawRank(frame.drawn[j])

\* a frame stepped a body that broke away after two parameter edits: the
\* state-conditioned layers are absent, the others keep their order
C20_Witness ==
    /\ frame.stepped
    /\ op = "step"
    /\ Broken(pre)
    /\ nEdits = 2
    /\ snapshot.steps >= 3
    /\ frame.drawn = << "PlaneNode", "CenterNode", "TrajectoryPathNode",
                        "BlockNode", "LinearVelocityArrowNode",
                        "StatusTextNode" >>

(***************************************************************************)
(* C21  State-conditioned layers: in a rendered frame the rope and the     *)
(* orbit guide are drawn iff the state is NORMAL; the                      *)
(* centripetal-acceleration and angular-velocity arrows iff the state is   *)
(* NORMAL and angularVelocity # 0; the linear-velocity arrow except when   *)
(* the state is NORMAL and angularVelocity = 0; the body marker always.    *)
(* No frame rendered after the break draws the rope.                       *)
(***************************************************************************)
Drawn(n) == \E i \in 1..Len(frame.drawn) : frame.drawn[i] = n

C21_StateConditionedLayers ==
    fresh =>
        /\ Drawn("RopeNode") <=> Normal(model)
        /\ Drawn("TrajectoryNode") <=> Normal(model)
        /\ Drawn("CentripetalAccelerationArrowNode")
              <=> (Normal(model) /\ model.angularVelocity # 0)
        /\ Drawn("AngularVelocityArrowNode")
              <=> (Normal(model) /\ model.angularVelocity # 0)
        /\ Drawn("LinearVelocityArrowNode")
              <=> ~(Normal(model) /\ model.angularVelocity = 0)
        /\ Drawn("BlockNode")
        /\ Broken(model) => ~Drawn("RopeNode")

\* the frame whose step broke the rope: no rope, no orbit guide, the
\* linear-velocity arrow and the body marker still there
C21_Witness ==
    /\ fresh
    /\ frame.stepped
    /\ SteppedBreak
    /\ ~Drawn("RopeNode") /\ ~Drawn("TrajectoryNode")
    /\ Drawn("LinearVelocityArrowNode") /\ Drawn("BlockNode")

(***************************************************************************)
(* C22  Arrow length clamps: whenever drawn, the centripetal-acceleration  *)
(* arrow is 30 to 70 surface units long and the linear-velocity arrow 30   *)
(* to 80, for all parameter values with mass > 0, and the lengths are      *)
(* non-decreasing in centripetalForce/mass and in linearVelocity.          *)
(***************************************************************************)
WithParameters(p) == syncParameters(model, p)

C22_ArrowLengthClamps ==
    model.mass > 0 =>
        /\ CentripetalAccelerationArrowNodeRender(model, TRUE).drew =>
              /\ accelerationMagnitude(model) >= 3000000
              /\ accelerationMagnitude(model) <= 7000000
        /\ LinearVelocityArrowNodeRender(model, TRUE).drew =>
              /\ velocityMagnitude(model) >= 30000
              /\ velocityMagnitude(model) <= 80000
        /\ \A p \in InputSettings :
              /\ (p.mass > 0 /\ centripetalAcceleration(WithParameters(p))
                                 <= centripetalAcceleration(model)) =>
                    accelerationMagnitude(WithParameters(p))
                        <= accelerationMagnitude(model)
              /\ linearVelocity(WithParameters(p)) <= linearVelocity(model) =>
                    velocityMagnitude(WithParameters(p)) <= velocityMagnitude(model)

\* a stepped model whose two arrows are drawn with lengths strictly inside
\* the clamps (60 and 50), while other inputs reach both ends of both
C22_Witness ==
    /\ op = "step"
    /\ model.mass = 100 /\ model.angularVelocity = 100
    /\ CentripetalAccelerationArrowNodeRender(model, TRUE).drew
    /\ LinearVelocityArrowNodeRender(model, TRUE).drew
    /\ accelerationMagnitude(model) = 6000000
    /\ velocityMagnitude(syncParameters(model, Parameters(100, 100, 0, 10, CLOCKWISE)))
          = 50000
    /\ \E p, q \in InputSettings :
          /\ p.mass > 0 /\ q.mass > 0
          /\ accelerationMagnitude(WithParameters(p)) = 3000000
          /\ accelerationMagnitude(WithParameters(q)) = 7000000
          /\ velocityMagnitude(WithParameters(p)) = 30000
          /\ velocityMagnitude(WithParameters(q)) = 80000

(***************************************************************************)
(* C28  Non-physical inputs never break the rope spuriously: with mass 0   *)
(* or radius 0 and maxTension >= 0, no sequence of step calls puts the     *)
(* model in ROPE_BROKEN state, whatever the angular velocity: the force is *)
(* 0 and 0 > maxTension is false; while it moves, each such step advances  *)
(* the angle as a step of a physical input does.                           *)
(***************************************************************************)
C28_DegenerateNeverBreaks ==
    ((model.mass = 0 \/ model.radius = 0) /\ model.maxTension >= 0) =>
        /\ centripetalForce(model) = 0
        /\ Normal(model)
        /\ (op = "step" /\ pre.angularVelocity # 0) =>
              model.angle # pre.angle

\* six steps with mass 0, radius 0, maxTension 0 and the largest angular
\* velocity: still NORMAL
C28_Witness ==
    /\ op = "step"
    /\ nSteps = 6
    /\ model.mass = 0 /\ model.radius = 0 /\ model.maxTension = 0
    /\ model.angularVelocity = 500
    /\ Normal(model)
    /\ model.angle # 0

(***************************************************************************)
(* C29  Division-by-zero guard in the arrow layers, as claimed: when the   *)
(* mass that centripetalForce is divided by is 0, or the radius is 0 so    *)
(* that the body lies on the pivot the arrow is aimed at, the              *)
(* centripetal-acceleration arrow skips drawing; it is never drawn with an *)
(* undefined (0/0) length.                                                 *)
(***************************************************************************)
C29_ArrowSkipsOnZeroDivisor ==
    CentripetalAccelerationArrowNodeRender(model, TRUE).drew =>
        /\ model.mass # 0
        /\ getBlockPosition(model) # model.centerPosition
        /\ accelerationMagnitude(model) # NaN

(***************************************************************************)
(* C23  Pause semantics: while the page stays paused no step is made; a    *)
(* frame runs the full render pass and leaves the model as it was; a       *)
(* parameter edit or a clear leaves state, angle and brokenPosition as     *)
(* they were, so an edit that raises the force above maxTension does not   *)
(* break the rope while paused; the step that runs on resuming does.       *)
(***************************************************************************)
C23_PauseSemantics ==
    [][/\ (isPaused /\ isPaused') =>
            /\ nSteps' = nSteps
            /\ model'.state = model.state
            /\ model'.angle = model.angle
            /\ model'.brokenPosition = model.brokenPosition
            /\ fresh' =>
                  /\ model' = model
                  /\ ~frame'.stepped
                  /\ frame'.invoked = nodes
       /\ (isPaused /\ ~isPaused' /\ pre' = model /\ Normal(model)
             /\ model.angularVelocity # 0 /\ ForceOf(model) > LimitOf(model)) =>
            /\ nSteps' = nSteps + 1
            /\ Broken(model')
      ]_vars

\* a paused frame rendered a model whose force a parameter edit had raised
\* above maxTension: the rope is intact
C23_Witness ==
    /\ isPaused
    /\ fresh
    /\ ~frame.stepped
    /\ op = "edit"
    /\ Normal(model)
    /\ model.angularVelocity # 0
    /\ ForceOf(model) > LimitOf(model)
    /\ ForceOf(pre) <= LimitOf(pre)
    /\ Drawn("RopeNode")

(***************************************************************************)
(* C24  Driver reset: the reset button, from any state (NORMAL or BROKEN,  *)
(* paused or running, any parameter values), leaves the page unpaused and, *)
(* once the parameter sync has run, the model NORMAL with angle 0, an      *)
(* empty trail and the initial parameter values; if the page was paused    *)
(* the restarted loop then steps that model once.                          *)
(***************************************************************************)
AfterDriverReset(m) ==
    /\ Normal(m)
    /\ m.angle = 0
    /\ m.trajectoryPoints = << >>
    /\ m.trajectoryCounter = 0
    /\ m.mass = 100 /\ m.angularVelocity = 50 /\ m.maxTension = 50000000
    /\ m.radius = 10 /\ m.rotationDirection = CLOCKWISE

C24_DriverReset ==
    [][handleReset =>
          /\ ~isPaused'
          /\ IF isPaused
             THEN /\ op' = "step"
                  /\ AfterDriverReset(pre')
                  /\ model' = step(pre')
             ELSE /\ op' = "reset"
                  /\ AfterDriverReset(model')
      ]_vars

\* the reset button was pressed on a running page whose rope had broken
\* under counterclockwise non-default parameters
C24_Witness ==
    /\ op = "reset"
    /\ Broken(pre)
    /\ pre.rotationDirection = COUNTERCLOCKWISE
    /\ pre.angularVelocity = 200
    /\ pre.trajectoryPoints # << >>
    /\ ~isPaused
    /\ AfterDriverReset(model)

(***************************************************************************)
(* C25  Stop is immediate and final: once the cleanup of the animation     *)
(* effect has run, the callback its loop had registered is no longer       *)
(* pending, so it never executes: after the page is unmounted no callback  *)
(* is pending and nothing steps or renders, and after a cleanup followed   *)
(* by a restart every pending callback belongs to the restarted loop.      *)
(***************************************************************************)
C25_StopIsFinal ==
    [][/\ view' = "unmounted" => pending' = << >>
       /\ view = "unmounted" => UNCHANGED <<model, frame, nSteps>>
       /\ \A i \in 1..Len(pending') : pending'[i] = isPaused'
      ]_vars

\* the page was unmounted while paused, after stepping and rendering
C25_Witness ==
    /\ view = "unmounted"
    /\ isPaused
    /\ pending = << >>
    /\ nSteps >= 2
    /\ fresh /\ ~frame.stepped

(***************************************************************************)
(* C26  Frame atomicity and ordering: every unpaused frame makes exactly   *)
(* one step and then one full render pass of all layers, which shows the   *)
(* model as the step left it; a paused frame makes the render pass only.   *)
(* A frame is one uninterrupted call of animate, so no edit, reset or      *)
(* clear falls between its step and the end of its render pass.            *)
(***************************************************************************)
C26_FrameAtomicity ==
    [][fresh' =>
          /\ frame'.stepped <=> ~isPaused'
          /\ frame'.invoked = nodes
          /\ frame'.drawn = render(model', NodeVisible).drawn
          /\ IF frame'.stepped
             THEN /\ nSteps' = nSteps + 1
                  /\ op' = "step"
                  /\ pre' = model \/ AfterDriverReset(pre')
                  /\ model' = step(pre')
             ELSE /\ nSteps' = nSteps
                  /\ model' = model
      ]_vars

\* the frame whose step broke the rope shows the broken state
C26_Witness ==
    /\ fresh
    /\ frame.stepped
    /\ ~isPaused
    /\ SteppedBreak
    /\ model = step(pre)
    /\ frame.drawn = render(model, NodeVisible).drawn
    /\ ~Drawn("RopeNode")
    /\ nEdits = 1

(***************************************************************************)
(* C27  Single frame loop: after any sequence of mount, pause toggles and  *)
(* resets at most one frame callback is pending, and exactly one while the *)
(* page is mounted.                                                        *)
(***************************************************************************)
C27_SingleFrameLoop ==
    /\ Len(pending) <= 1
    /\ view = "mounted" <=> Len(pending) = 1

\* one callback pending after the loop was restarted by a pause, a reset
\* of the paused page and another pause
C27_Witness ==
    /\ view = "mounted"
    /\ isPaused
    /\ pending = << TRUE >>
    /\ op = "step"
    /\ AfterDriverReset(pre)
    /\ nEdits = 2
    /\ nSteps >= 3

(***************************************************************************)
(* C30  Step cadence, as claimed: step is called only from a registered    *)
(* frame callback; mounting the page and toggling pause do not by          *)
(* themselves advance the simulation.                                      *)
(***************************************************************************)
C30_StepsOnlyInFrameCallbacks ==
    [][nSteps' # nSteps => (view = "mounted" /\ isPaused' = isPaused)]_vars

(***************************************************************************)
(* C31  Orbit guide matches the orbit, as claimed: in every frame that     *)
(* draws the orbit guide the dashed ellipse is centred on centerPosition   *)
(* and has the semi-axes getBlockPosition uses, radius * pixelsPerMeter    *)
(* horizontally and 0.3 times that vertically, so that the body at angle 0 *)
(* is the rightmost point of the ellipse.                                  *)
(***************************************************************************)
C31_OrbitGuideMatchesOrbit ==
    (fresh /\ Drawn("TrajectoryNode")) =>
        LET e == TrajectoryNodeEllipse(model)
            radiusPixels == model.radius * pixelsPerMeter * 1000
        IN  /\ e.x = model.centerPosition.x
            /\ e.y = model.centerPosition.y
            /\ e.radiusX = radiusPixels
            /\ e.radiusY = (radiusPixels * 3) \div 10
            /\ model.angle = 0 => getBlockPosition(model).x = e.x + e.radiusX

(***************************************************************************)
(* C32  No stale-parameter re-break after reset: no frame steps a model    *)
(* that handleReset has reset but that does not hold the default           *)
(* parameters yet.  The step that first follows a reset runs on the reset  *)
(* model with the default parameters and leaves it NORMAL, whatever the    *)
(* parameters and the state were before the reset.                         *)
(***************************************************************************)
C32_NoStaleParameterReBreak ==
    [][/\ op' = "reset" => AfterDriverReset(model')
       /\ (handleReset /\ isPaused) =>
             (op' = "step" /\ AfterDriverReset(pre') /\ Normal(model'))
       /\ (op = "reset" /\ op' = "step") =>
             (pre' = model /\ AfterDriverReset(pre') /\ Normal(model'))
      ]_vars

\* the reset button was pressed after the rope had broken under parameters
\* whose force exceeds the limit; the model holds the defaults again
C32_Witness ==
    /\ op = "reset"
    /\ Broken(pre)
    /\ ForceOf(pre) > LimitOf(pre)
    /\ pre.trajectoryPoints # << >>
    /\ AfterDriverReset(model)
    /\ ~isPaused

(***************************************************************************)
(* C33  A broken body always moves, as claimed: with all parameters within *)
(* the ranges of the controls, in every reachable ROPE_BROKEN state        *)
(* brokenVelocity is not the zero vector and every step changes            *)
(* brokenPosition.                                                         *)
(***************************************************************************)
C33_BrokenBodyMoves ==
    Broken(model) =>
        /\ model.brokenVelocity # Vector2(0, 0)
        /\ (op = "step" /\ Broken(pre)) =>
               model.brokenPosition # pre.brokenPosition

(***************************************************************************)
(* C34  Post-break rendering uses only the frozen snapshot, as claimed: in *)
(* ROPE_BROKEN state the drawn body position and the length of the         *)
(* linear-velocity arrow are functions of brokenPosition and               *)
(* brokenVelocity alone, so a transition that leaves both unchanged, such  *)
(* as an edit of angularVelocity or radius, leaves the drawn position and  *)
(* the arrow length unchanged.                                             *)
(***************************************************************************)
C34_BrokenArrowFromSnapshot ==
    [][(/\ Broken(model)
        /\ Broken(model')
        /\ model'.brokenPosition = model.brokenPosition
        /\ model'.brokenVelocity = model.brokenVelocity) =>
          /\ getBlockPosition(model') = getBlockPosition(model)
          /\ velocityMagnitude(model') = velocityMagnitude(model)
      ]_vars

(***************************************************************************)
(* C39  Stored trail points are immutable snapshots: a step changes the    *)
(* coordinates of no point already stored in trajectoryPoints, the         *)
(* in-place advance of brokenPosition included; a step that samples        *)
(* appends the body position as it is after that step; and points appended *)
(* on different ROPE_BROKEN steps are different values.                    *)
(***************************************************************************)
C39_TrailPointsImmutable ==
    [][op' = "step" =>
          LET old == Len(model.trajectoryPoints)
              new == Len(model'.trajectoryPoints)
          IN  /\ new \in {old, old + 1}
              /\ \A i \in 1..old : pointAt(model', i) = pointAt(model, i)
              /\ new = old + 1 =>
                    /\ pointAt(model', new) = getBlockPosition(model')
                    /\ (Broken(model) /\ old >= 1) =>
                          pointAt(model', new) # pointAt(model', old)
      ]_vars

\* two points of the trail were appended on different ROPE_BROKEN steps and
\* the body has moved on since the first
C39_Witness ==
    /\ Broken(model)
    /\ op = "step"
    /\ nSteps = 6
    /\ snapshot.steps >= 5
    /\ Len(model.trajectoryPoints) = 2
    /\ pointAt(model, 2) = model.brokenPosition
    /\ pointAt(model, 1) # model.brokenPosition

(***************************************************************************)
(* C35  HomePage force-analysis toggle, as claimed: every frame drawn      *)
(* after the checkbox was checked shows the red centripetal-force arrow    *)
(* (the body never coincides with the pivot), and every frame drawn after  *)
(* it was unchecked shows none.  Changing the checkbox redraws at once, so *)
(* in every state of the mounted page the last frame was drawn under the   *)
(* current setting of the checkbox.                                        *)
(***************************************************************************)
C35_HomeArrowFollowsCheckbox ==
    home.view = "mounted" =>
        /\ HomeDistancePositive(home.frame.angle)
        /\ home.frame.arrow = home.showForceAnalysis
(***************************************************************************)
(* C36: on PhETHomePage a change of the force-analysis checkbox leaves     *)
(* the registered frame callback, the number of runs of the animation      *)
(* effect, the model's angle and the drawn frame as they were; every call  *)
(* of animate draws the arrow exactly when the model's showForceAnalysis   *)
(* is true at that call; and the angle is in [0, 2 pi) after every step.   *)
(***************************************************************************)
C36_ToggleKeepsAnimation ==
    [][ /\ (phet.view = "mounted" /\ phet'.showForceAnalysis # phet.showForceAnalysis)
            => /\ phet'.pending = phet.pending
               /\ phet'.effectRuns = phet.effectRuns
               /\ phet'.model.angle = phet.model.angle
               /\ phet'.frame = phet.frame
        /\ phet'.model.angle # phet.model.angle
            => /\ phet'.showForceAnalysis = phet.showForceAnalysis
               /\ phet'.frame.angle = phet'.model.angle
               /\ phet'.frame.arrow <=> phet'.model.showForceAnalysis
               /\ phet'.model.angle >= 0
               /\ phet'.model.angle < TwoPi
               /\ phet'.effectRuns = 1
               /\ Len(phet'.pending) = 1 ]_vars

\* the checkbox is ticked and the arrow is on display in the first frame of
\* the second revolution
C36_Witness ==
    /\ phet.showForceAnalysis
    /\ phet.frame.arrow
    /\ phet.model.angle > 0
    /\ phet.model.angle < phet.model.angularVelocity
    /\ phet.frame.angle = phet.model.angle
    /\ phet.pending = << 1 >>
(***************************************************************************)
(* C37: on the quiz page currentQuestionIndex is always one of the         *)
(* questions' indices; prevQuestion at the first question changes          *)
(* nothing; the results view is entered only from the last question, by    *)
(* nextQuestion, which changes nothing else; and the restart button of     *)
(* the results view gives index 0, no answers and no uploaded files.       *)
(***************************************************************************)
C37_QuizNavigation ==
    [][ /\ quiz.currentQuestionIndex \in 0..(Len(questions) - 1)
        /\ quiz'.currentQuestionIndex \in 0..(Len(questions) - 1)
        /\ quiz.currentQuestionIndex = 0 => prevQuestion(quiz) = quiz
        /\ (~quiz.showResults /\ quiz'.showResults)
            => /\ quiz.currentQuestionIndex = Len(questions) - 1
               /\ quiz' = nextQuestion(quiz)
               /\ quiz' = [quiz EXCEPT !.showResults = TRUE]
        /\ (quiz.showResults /\ quiz' # quiz)
            => /\ ~quiz'.showResults
               /\ quiz'.currentQuestionIndex = 0
               /\ DOMAIN quiz'.userAnswers = {}
               /\ DOMAIN quiz'.uploadedFiles = {} ]_vars

\* the results view, entered from the last question with every question
\* answered and files uploaded
C37_Witness ==
    /\ quiz.showResults
    /\ quiz.currentQuestionIndex = Len(questions) - 1
    /\ DOMAIN quiz.userAnswers = 1..Len(questions)
    /\ DOMAIN quiz.uploadedFiles = {4, 5, 6, 7}
(***************************************************************************)
(* C38: in the results view every calculation question whose answer is     *)
(* the result its own explanation derives is counted as correct, and the   *)
(* score is the number of choice questions answered with the right option  *)
(* plus the number of calculation questions answered within tolerance of   *)
(* the stored answer; unanswered and open questions count nothing.         *)
(***************************************************************************)
C38_GradingAgreesWithExplanations ==
    quiz.showResults =>
        LET answers == quiz.userAnswers
            answered == DOMAIN answers
            matches(i) ==
                /\ i \in answered
                /\ \/ /\ questions[i].type = "choice"
                      /\ answers[i] = questions[i].correctAnswer
                   \/ /\ questions[i].type = "calculation"
                      /\ answers[i] # << >>
                      /\ answers[i][1] - questions[i].correctAnswer <= questions[i].tolerance
                      /\ questions[i].correctAnswer - answers[i][1] <= questions[i].tolerance
        IN  /\ \A i \in 1..Len(questions) :
                  (/\ questions[i].type = "calculation"
                   /\ i \in answered
                   /\ answers[i] = << questions[i].explained >>)
                      => counted(questions[i], answers)
            /\ calculateScore(answers)
                  = Cardinality({i \in 1..Len(questions) : matches(i)})
====
